---- MODULE Spec2Model ----
(***************************************************************************)
(* The EIP-681 URL codec of eip681-link-generator-v2.                      *)
(*                                                                         *)
(* The repository holds two copies of utils/eip681.ts.  The definitions    *)
(* with the source's plain names model the copy that checksums addresses   *)
(* (src/unnamed/part_002, the one its unit tests in src/unnamed/part_004   *)
(* exercise); the definitions ending in _srcUtils model the copy at        *)
(* src/src/utils/eip681.ts.                                                *)
(*                                                                         *)
(* A JavaScript string is a sequence of characters, each character a       *)
(* one-letter TLA+ string.  A 0x-prefixed run of 40 hex digits is kept as  *)
(* one element of the sequence (an "address atom"): no code of the codec   *)
(* ever looks inside such a run, it only compares, re-cases or copies it.  *)
(***************************************************************************)
EXTENDS Integers, Sequences, FiniteSets, TLC

VARIABLES
    log,            \* the calls of the codec made so far
    CHAINS,         \* data/chains.ts: the exported list of chains
    decimalsCache,  \* tokenSearch.ts: cache key -> decimals
    USDC_CACHE,     \* tokenSearch.ts: chain id -> cached USDC tokens
    decimalsCalls,  \* the calls of getTokenDecimals, finished or awaiting a fetch
    searchCalls,    \* the calls of searchTokensOnDexScreener
    mounted,            \* TransactionForm has rendered
    selectedChain,      \* TransactionForm: useState(CHAINS[0] || null)
    selectedToken,      \* TransactionForm: useState(null)
    toAddressField,     \* the form field toAddress (watchedValues.toAddress)
    valueField,         \* the form field value
    generatedURL,       \* TransactionForm: useState('')
    userFriendlyTitle,  \* TransactionForm: useState('')
    resolvedEnsResult,  \* TransactionForm: useState(null)
    submits,            \* the calls of onSubmit
    queryState,         \* TokenSelector: useState('')
    tokensState,        \* TokenSelector: useState([])
    isSearching,        \* TokenSelector: useState(false)
    hasSearched,        \* TokenSelector: useState(false)
    timeout,            \* the timeout of the debounced search, when one is set
    selectorSearches,   \* the searches the selector has started
    now,                \* the time in milliseconds
    addressValue,       \* AddressInput: the prop value
    addressChainId,     \* AddressInput: the prop chainId
    addressResult,      \* AddressInput: useState(null), ensResult
    isResolving,        \* AddressInput: useState(false)
    debounceTimer,      \* AddressInput: the timer of the effect, when one is set
    resolutions,        \* AddressInput: the calls of resolveAddress that awaited
    dateNow,            \* ens.ts: Date.now()
    requestTimestamps,  \* ens.ts: the Map requestTimestamps
    resolverCache,      \* ens.ts: the Map resolverCache
    rpcLog,             \* per rate key, the times at which a call began its RPC
    pendingRpcs,        \* per rate key, the calls that await their RPC
    lastCall            \* the call of the resolver made in the last step, if any

codecVars == <<log>>
tokenSearchVars == <<CHAINS, decimalsCache, USDC_CACHE, decimalsCalls, searchCalls>>
formVars == <<mounted, selectedChain, selectedToken, toAddressField, valueField,
              generatedURL, userFriendlyTitle, resolvedEnsResult, submits>>
selectorVars == <<queryState, tokensState, isSearching, hasSearched, timeout,
                  selectorSearches, now>>
addressInputVars == <<addressValue, addressChainId, addressResult, isResolving,
                      debounceTimer, resolutions>>
resolverVars == <<dateNow, requestTimestamps, resolverCache, rpcLog, pendingRpcs,
                  lastCall>>
vars == <<codecVars, tokenSearchVars, formVars, selectorVars, addressInputVars,
          resolverVars>>

\* what the actions of one part of the program leave alone
notCodec == <<tokenSearchVars, formVars, selectorVars, addressInputVars, resolverVars>>
notTokenSearch == <<codecVars, formVars, selectorVars, addressInputVars, resolverVars>>
notForm == <<codecVars, tokenSearchVars, addressInputVars, resolverVars>>
notAddressInput == <<codecVars, tokenSearchVars, formVars, selectorVars, resolverVars>>
notResolver == <<codecVars, tokenSearchVars, formVars, selectorVars, addressInputVars>>

(***************************************************************************)
(* Bounds of the model.                                                    *)
(***************************************************************************)
\* number of consecutive codec calls in one session (encode, decode, ...)
MaxCalls == 3
\* number of key=value pairs in a query string given to the decoder
MaxPairs == 2
\* number of entries of the parameters object given to the encoder
MaxParams == 2

(***************************************************************************)
(* undefined / optional values: None is undefined, Some(x) a present x.    *)
(***************************************************************************)
None == <<>>
Some(x) == <<x>>

\* a JavaScript number as far as the codec meets one: an integer or NaN
Num(n) == [nan |-> FALSE, n |-> n]
NaN == [nan |-> TRUE, n |-> 0]

\* the result of a call that may throw
Return(v) == [thrown |-> FALSE, val |-> v]
Throw == [thrown |-> TRUE, val |-> <<>>]

(***************************************************************************)
(* Characters.                                                             *)
(***************************************************************************)
Digits == <<"0", "1", "2", "3", "4", "5", "6", "7", "8", "9">>
DigitSet == {Digits[i] : i \in 1..10}
HexLetters == {"a", "b", "c", "d", "e", "f", "A", "B", "C", "D", "E", "F"}
\* U+D800 standing alone (a lone surrogate) and U+FFFD (the replacement character)
LONE_SURROGATE == "\\uD800"
REPLACEMENT == "\\uFFFD"

DigitVal(c) == CHOOSE i \in 0..9 : Digits[i + 1] = c

(***************************************************************************)
(* The addresses of the unit tests, in the casings they are written in.    *)
(***************************************************************************)
A_LOWER == "0x742e1e5e0adf53cbb81d725d5a8b2cd5b10b5e2f"
A_MIXED == "0x742e1e5E0aDF53CbB81D725d5A8B2Cd5b10b5E2f"
A_UPPER == "0x742E1E5E0ADF53CBB81D725D5A8B2CD5B10B5E2F"
A_CHECK == "0x742e1E5e0adf53Cbb81D725d5a8b2cD5B10B5E2F"
T_LOWER == "0xa0b86a33e6441b4e5a03d8ccac1e6b9d9e7bbe4a"
T_MIXED == "0xA0b86a33E6441b4e5a03d8CCAC1E6B9D9e7BBE4a"
T_CHECK == "0xa0B86A33E6441B4E5a03D8CcAc1E6B9D9E7BBE4a"

AddressAtoms == {A_LOWER, A_MIXED, A_UPPER, A_CHECK, T_LOWER, T_MIXED, T_CHECK}

\* String.prototype.toLowerCase on an address atom
toLowerCase(a) ==
    CASE a \in {A_LOWER, A_MIXED, A_UPPER, A_CHECK} -> A_LOWER
      [] a \in {T_LOWER, T_MIXED, T_CHECK} -> T_LOWER

\* viem's checksumAddress: the keccak-derived casing of a lower-cased address,
\* given by the values the unit tests expect
checksumAddress(a) ==
    CASE toLowerCase(a) = A_LOWER -> A_CHECK
      [] toLowerCase(a) = T_LOWER -> T_CHECK

\* viem's addressRegex /^0x[a-fA-F0-9]{40}$/
addressRegex(s) == Len(s) = 1 /\ s[1] \in AddressAtoms

\* viem's isAddress(address) with the default strict: true
isAddress(s) ==
    /\ addressRegex(s)
    /\ \/ toLowerCase(s[1]) = s[1]
       \/ checksumAddress(s[1]) = s[1]

\* viem's getAddress: throws InvalidAddressError unless isAddress(address, {strict: false})
getAddress(s) ==
    IF addressRegex(s) THEN Return(<<checksumAddress(s[1])>>) ELSE Throw

(***************************************************************************)
(* String primitives of the JavaScript runtime.                            *)
(***************************************************************************)
ETHEREUM == <<"e", "t", "h", "e", "r", "e", "u", "m", ":">>
BITCOIN == <<"b", "i", "t", "c", "o", "i", "n", ":">>
TRANSFER == <<"t", "r", "a", "n", "s", "f", "e", "r">>

startsWith(s, p) == Len(s) >= Len(p) /\ SubSeq(s, 1, Len(p)) = p

substring(s, n) == SubSeq(s, n + 1, Len(s))

RECURSIVE indexOf(_, _, _)
indexOf(s, c, i) ==
    IF i > Len(s) THEN 0
    ELSE IF s[i] = c THEN i
    ELSE indexOf(s, c, i + 1)

includes(s, c) == indexOf(s, c, 1) # 0

\* mutant of split: the string is split at the first separator only
split_atFirstOnly(s, c) ==
    LET i == indexOf(s, c, 1)
    IN  IF i = 0 THEN <<s>>
        ELSE <<SubSeq(s, 1, i - 1), SubSeq(s, i + 1, Len(s))>>

\* String.prototype.split with a one-character separator and no limit
RECURSIVE split(_, _)
split(s, c) ==
    LET i == indexOf(s, c, 1)
    IN  IF i = 0 THEN <<s>>
        ELSE <<SubSeq(s, 1, i - 1)>> \o split(SubSeq(s, i + 1, Len(s)), c)

\* Array.prototype.join
RECURSIVE join(_, _)
join(parts, sep) ==
    IF Len(parts) = 0 THEN <<>>
    ELSE IF Len(parts) = 1 THEN parts[1]
    ELSE parts[1] \o sep \o join(Tail(parts), sep)

\* element i of an array (1-based here), undefined past its end
At(parts, i) == IF i <= Len(parts) THEN Some(parts[i]) ELSE None

\* truthiness of an optional string: undefined and "" are falsy
Truthy(o) == o # None /\ o[1] # <<>>

\* truthiness of an optional number: undefined, 0 and NaN are falsy
TruthyNum(o) == o # None /\ ~o[1].nan /\ o[1].n # 0

(***************************************************************************)
(* Numbers.                                                                *)
(***************************************************************************)
RECURSIVE DigitsPrefix(_, _)
\* the longest prefix of s from position i on that consists of decimal digits
DigitsPrefix(s, i) ==
    IF i <= Len(s) /\ s[i] \in DigitSet THEN <<s[i]>> \o DigitsPrefix(s, i + 1)
    ELSE <<>>

RECURSIVE DigitsValue(_)
DigitsValue(ds) ==
    IF Len(ds) = 0 THEN 0
    ELSE 10 * DigitsValue(SubSeq(ds, 1, Len(ds) - 1)) + DigitVal(ds[Len(ds)])

RECURSIVE SkipSpace(_, _)
SkipSpace(s, i) == IF i <= Len(s) /\ s[i] = " " THEN SkipSpace(s, i + 1) ELSE i

\* mutant of parseInt: 0 instead of NaN when there is no digit
parseInt_zeroForNaN(s) ==
    LET i == SkipSpace(s, 1)
        neg == i <= Len(s) /\ s[i] = "-"
        j == IF i <= Len(s) /\ s[i] \in {"-", "+"} THEN i + 1 ELSE i
        ds == DigitsPrefix(s, j)
    IN  Num(IF neg THEN 0 - DigitsValue(ds) ELSE DigitsValue(ds))

\* parseInt(s, 10): leading white space, a sign, then the digits up to the first
\* character that is no digit; NaN when there is no digit
parseInt(s) ==
    LET i == SkipSpace(s, 1)
        neg == i <= Len(s) /\ s[i] = "-"
        j == IF i <= Len(s) /\ s[i] \in {"-", "+"} THEN i + 1 ELSE i
        ds == DigitsPrefix(s, j)
    IN  IF Len(ds) = 0 THEN NaN
        ELSE Num(IF neg THEN 0 - DigitsValue(ds) ELSE DigitsValue(ds))

RECURSIVE NatToString(_)
NatToString(n) ==
    IF n < 10 THEN <<Digits[n + 1]>>
    ELSE NatToString(n \div 10) \o <<Digits[(n % 10) + 1]>>

\* Number.prototype.toString as a template literal applies it
NumberToString(x) ==
    IF x.nan THEN <<"N", "a", "N">>
    ELSE IF x.n < 0 THEN <<"-">> \o NatToString(0 - x.n)
    ELSE NatToString(x.n)

Number_isInteger(x) == ~x.nan

(***************************************************************************)
(* parseFloat, as far as the codec reads its result: whether the number is *)
(* NaN, its sign, its significant decimal digits and its decimal exponent  *)
(* (value = 0.d1 d2 ... dn * 10^point).  Only decimal literals without an  *)
(* exponent part are given to it in this model.                            *)
(***************************************************************************)
RECURSIVE StripLeadingZeros(_)
StripLeadingZeros(ds) ==
    IF Len(ds) > 0 /\ ds[1] = "0" THEN StripLeadingZeros(Tail(ds)) ELSE ds

RECURSIVE StripTrailingZeros(_)
StripTrailingZeros(ds) ==
    IF Len(ds) > 0 /\ ds[Len(ds)] = "0"
    THEN StripTrailingZeros(SubSeq(ds, 1, Len(ds) - 1))
    ELSE ds

parseFloat(s) ==
    LET i == SkipSpace(s, 1)
        neg == i <= Len(s) /\ s[i] = "-"
        j == IF i <= Len(s) /\ s[i] \in {"-", "+"} THEN i + 1 ELSE i
        int == DigitsPrefix(s, j)
        k == j + Len(int)
        frac == IF k <= Len(s) /\ s[k] = "." THEN DigitsPrefix(s, k + 1) ELSE <<>>
        all == int \o frac
        lead == StripLeadingZeros(all)
    IN  IF Len(all) = 0 THEN [nan |-> TRUE, neg |-> FALSE, digits |-> <<>>, point |-> 0]
        ELSE [nan |-> FALSE, neg |-> neg, digits |-> StripTrailingZeros(lead),
              point |-> Len(int) - (Len(all) - Len(lead))]

\* parseFloat(s) > 0
GreaterThanZero(x) == ~x.nan /\ ~x.neg /\ Len(x.digits) > 0

\* (x * Math.pow(10, 18)).toExponential() for x > 0: d[.ddd]e+N or d[.ddd]e-N
WEI_EXPONENT == 18
timesPow10toExponential(x) ==
    LET e == x.point - 1 + WEI_EXPONENT
        mant == IF Len(x.digits) = 1 THEN x.digits
                ELSE <<x.digits[1], ".">> \o Tail(x.digits)
    IN  mant \o (IF e < 0 THEN <<"e", "-">> \o NatToString(0 - e)
                 ELSE <<"e", "+">> \o NatToString(e))

\* String.prototype.replace('e+', 'e'): the first occurrence only
RECURSIVE replaceEPlus(_)
replaceEPlus(s) ==
    IF Len(s) < 2 THEN s
    ELSE IF s[1] = "e" /\ s[2] = "+" THEN <<"e">> \o SubSeq(s, 3, Len(s))
    ELSE <<s[1]>> \o replaceEPlus(Tail(s))

(***************************************************************************)
(* encodeURIComponent and URLSearchParams.                                 *)
(***************************************************************************)
\* the escape of one character; every reserved character of the model's
\* alphabet is listed, the others (letters, digits, address atoms, - and .)
\* are unreserved and stay as they are
Escape(c) ==
    CASE c = " " -> <<"%", "2", "0">>
      [] c = "#" -> <<"%", "2", "3">>
      [] c = "%" -> <<"%", "2", "5">>
      [] c = "&" -> <<"%", "2", "6">>
      [] c = "+" -> <<"%", "2", "B">>
      [] c = "/" -> <<"%", "2", "F">>
      [] c = ":" -> <<"%", "3", "A">>
      [] c = "=" -> <<"%", "3", "D">>
      [] c = "?" -> <<"%", "3", "F">>
      [] c = "@" -> <<"%", "4", "0">>
      [] c = REPLACEMENT -> <<"%", "E", "F", "%", "B", "F", "%", "B", "D">>
      [] OTHER -> <<c>>

\* encodeURIComponent: throws URIError on a lone surrogate
RECURSIVE encodeURIComponent(_)
encodeURIComponent(s) ==
    IF Len(s) = 0 THEN Return(<<>>)
    ELSE IF s[1] = LONE_SURROGATE THEN Throw
    ELSE LET rest == encodeURIComponent(Tail(s))
         IN  IF rest.thrown THEN Throw ELSE Return(Escape(s[1]) \o rest.val)

IsHex(c) == c \in DigitSet \/ c \in HexLetters

HexUpper(c) ==
    CASE c = "a" -> "A" [] c = "b" -> "B" [] c = "c" -> "C"
      [] c = "d" -> "D" [] c = "e" -> "E" [] c = "f" -> "F"
      [] OTHER -> c

\* the character a %XY escape stands for; the model's inputs hold only escapes
\* of its alphabet, any other byte is shown as U+FFFD
Unescape(h1, h2) ==
    LET p == <<HexUpper(h1), HexUpper(h2)>>
    IN  CASE p = <<"2", "0">> -> " "
          [] p = <<"2", "3">> -> "#"
          [] p = <<"2", "5">> -> "%"
          [] p = <<"2", "6">> -> "&"
          [] p = <<"2", "B">> -> "+"
          [] p = <<"2", "F">> -> "/"
          [] p = <<"3", "A">> -> ":"
          [] p = <<"3", "D">> -> "="
          [] p = <<"3", "F">> -> "?"
          [] p = <<"4", "0">> -> "@"
          [] OTHER -> REPLACEMENT

\* percent-decode followed by UTF-8 decode: a % that is not followed by two
\* hex digits stays as it is
RECURSIVE percentDecode(_)
percentDecode(s) ==
    IF Len(s) = 0 THEN <<>>
    ELSE IF Len(s) >= 9 /\ SubSeq(s, 1, 9) = Escape(REPLACEMENT)
    THEN <<REPLACEMENT>> \o percentDecode(SubSeq(s, 10, Len(s)))
    ELSE IF s[1] = "%" /\ Len(s) >= 3 /\ IsHex(s[2]) /\ IsHex(s[3])
    THEN <<Unescape(s[2], s[3])>> \o percentDecode(SubSeq(s, 4, Len(s)))
    ELSE <<s[1]>> \o percentDecode(Tail(s))

plusToSpace(s) == [i \in 1..Len(s) |-> IF s[i] = "+" THEN " " ELSE s[i]]

\* conversion to a USVString: a lone surrogate becomes U+FFFD
USVString(s) == [i \in 1..Len(s) |-> IF s[i] = LONE_SURROGATE THEN REPLACEMENT ELSE s[i]]

\* the application/x-www-form-urlencoded parser over the &-separated pieces
RECURSIVE urlencodedParse(_)
urlencodedParse(pieces) ==
    IF Len(pieces) = 0 THEN <<>>
    ELSE LET b == pieces[1]
             i == indexOf(b, "=", 1)
             name == IF i = 0 THEN b ELSE SubSeq(b, 1, i - 1)
             value == IF i = 0 THEN <<>> ELSE SubSeq(b, i + 1, Len(b))
         IN  IF Len(b) = 0 THEN urlencodedParse(Tail(pieces))
             ELSE <<<<percentDecode(plusToSpace(name)), percentDecode(plusToSpace(value))>>>>
                  \o urlencodedParse(Tail(pieces))

\* new URLSearchParams(init).entries(): the list of [key, value] pairs
URLSearchParams(init) ==
    LET s == USVString(init)
        t == IF Len(s) > 0 /\ s[1] = "?" THEN Tail(s) ELSE s
    IN  urlencodedParse(split(t, "&"))

(***************************************************************************)
(* A Record<string, string>: its entries <<key, value>> in the order       *)
(* Object.entries yields them (integer-like keys ascending, then the other *)
(* keys in insertion order).                                               *)
(***************************************************************************)
EmptyObject == <<>>

\* an array index: a canonical decimal numeral (the model's keys are short)
IsArrayIndex(k) ==
    /\ Len(k) > 0
    /\ \A i \in 1..Len(k) : k[i] \in DigitSet
    /\ (Len(k) > 1 => k[1] # "0")

Object_keys(obj) == [i \in 1..Len(obj) |-> obj[i][1]]

HasKey(obj, k) == \E i \in 1..Len(obj) : obj[i][1] = k

\* the position a new key takes in the enumeration order
InsertAt(obj, k) ==
    IF IsArrayIndex(k)
    THEN 1 + Cardinality({i \in 1..Len(obj) :
                 IsArrayIndex(obj[i][1]) /\ DigitsValue(obj[i][1]) < DigitsValue(k)})
    ELSE Len(obj) + 1

\* obj[k] = v
ObjectSet(obj, k, v) ==
    IF HasKey(obj, k)
    THEN [i \in 1..Len(obj) |-> IF obj[i][1] = k THEN <<k, v>> ELSE obj[i]]
    ELSE LET p == InsertAt(obj, k)
         IN  SubSeq(obj, 1, p - 1) \o <<<<k, v>>>> \o SubSeq(obj, p, Len(obj))

\* Object.fromEntries, and a loop of assignments obj[key] = val over entries
RECURSIVE AssignAll(_, _)
AssignAll(obj, entries) ==
    IF Len(entries) = 0 THEN obj
    ELSE AssignAll(ObjectSet(obj, entries[1][1], entries[1][2]), Tail(entries))

Object_fromEntries(entries) == AssignAll(EmptyObject, entries)

(***************************************************************************)
(* The codec (src/unnamed/part_002).                                       *)
(***************************************************************************)
ADDRESS == <<"a", "d", "d", "r", "e", "s", "s">>
UINT256 == <<"u", "i", "n", "t", "2", "5", "6">>
VALUE == <<"v", "a", "l", "u", "e">>
GAS == <<"g", "a", "s">>
GASLIMIT == <<"g", "a", "s", "L", "i", "m", "i", "t">>
GASPRICE == <<"g", "a", "s", "P", "r", "i", "c", "e">>

\* an EIP681Params object; a property that is not set reads as undefined
EIP681Params(chainId, address, functionName, value, gas, gasLimit, gasPrice, parameters) ==
    [chainId |-> chainId, address |-> address, functionName |-> functionName,
     value |-> value, gas |-> gas, gasLimit |-> gasLimit, gasPrice |-> gasPrice,
     parameters |-> parameters]

\* mutant of toChecksumAddress: the catch block returns the empty string
toChecksumAddress_emptyOnFailure(address) ==
    LET r == getAddress(address)
    IN  IF r.thrown THEN <<>> ELSE r.val

\* toChecksumAddress: getAddress, and the address itself when getAddress throws
toChecksumAddress(address) ==
    LET r == getAddress(address)
    IN  IF r.thrown THEN address ELSE r.val

\* `name=${v}` when the optional string v passes the test, nothing otherwise
QueryParam(name, v, pass) == IF pass THEN <<name \o <<"=">> \o v[1]>> ELSE <<>>

\* mutant of ChainSegment: the test chainId !== 1 is dropped
ChainSegment_emitsMainnet(chainId) ==
    IF TruthyNum(chainId) THEN <<"@">> \o NumberToString(chainId[1]) ELSE <<>>

\* generateEIP681URL: if (chainId && chainId !== 1) url += `@${chainId}`
ChainSegment(chainId) ==
    IF TruthyNum(chainId) /\ chainId[1] # Num(1)
    THEN <<"@">> \o NumberToString(chainId[1])
    ELSE <<>>

\* mutant of NativeChainSegment: the test of generateEIP681URL is used instead
NativeChainSegment_skipsMainnet(chainId) ==
    IF TruthyNum(chainId) /\ chainId[1] # Num(1)
    THEN <<"@">> \o NumberToString(chainId[1])
    ELSE <<>>

\* the native-transfer paths: if (chainId) url += `@${chainId}`
NativeChainSegment(chainId) ==
    IF TruthyNum(chainId) THEN <<"@">> \o NumberToString(chainId[1]) ELSE <<>>

\* mutant of FixedQueryParams: gasLimit is pushed before gas
FixedQueryParams_gasLimitFirst(params) ==
    QueryParam(VALUE, params.value, Truthy(params.value) /\ params.value[1] # <<"0">>)
    \o QueryParam(GASLIMIT, params.gasLimit, Truthy(params.gasLimit))
    \o QueryParam(GAS, params.gas, Truthy(params.gas))
    \o QueryParam(GASPRICE, params.gasPrice, Truthy(params.gasPrice))

\* mutant of FixedQueryParams: the test value !== '0' is dropped
FixedQueryParams_emitsZero(params) ==
    QueryParam(VALUE, params.value, Truthy(params.value))
    \o QueryParam(GAS, params.gas, Truthy(params.gas))
    \o QueryParam(GASLIMIT, params.gasLimit, Truthy(params.gasLimit))
    \o QueryParam(GASPRICE, params.gasPrice, Truthy(params.gasPrice))

\* mutant of FixedQueryParams: gas is tested like value, '0' is not pushed
FixedQueryParams_skipsZeroGas(params) ==
    QueryParam(VALUE, params.value, Truthy(params.value) /\ params.value[1] # <<"0">>)
    \o QueryParam(GAS, params.gas, Truthy(params.gas) /\ params.gas[1] # <<"0">>)
    \o QueryParam(GASLIMIT, params.gasLimit, Truthy(params.gasLimit))
    \o QueryParam(GASPRICE, params.gasPrice, Truthy(params.gasPrice))

\* generateEIP681URL: the pushes of value, gas, gasLimit and gasPrice
FixedQueryParams(params) ==
    QueryParam(VALUE, params.value, Truthy(params.value) /\ params.value[1] # <<"0">>)
    \o QueryParam(GAS, params.gas, Truthy(params.gas))
    \o QueryParam(GASLIMIT, params.gasLimit, Truthy(params.gasLimit))
    \o QueryParam(GASPRICE, params.gasPrice, Truthy(params.gasPrice))

\* mutant of PushParameters: the value is pushed without encodeURIComponent
RECURSIVE PushParameters_unencoded(_)
PushParameters_unencoded(entries) ==
    IF Len(entries) = 0 THEN Return(<<>>)
    ELSE LET key == entries[1][1]
             val == entries[1][2]
             processedVal == IF key = ADDRESS THEN toChecksumAddress(val) ELSE val
         IN  Return(<<key \o <<"=">> \o processedVal>>
                    \o PushParameters_unencoded(Tail(entries)).val)

\* the forEach over Object.entries(parameters): the strings it pushes, or the
\* exception encodeURIComponent throws
RECURSIVE PushParameters(_)
PushParameters(entries) ==
    IF Len(entries) = 0 THEN Return(<<>>)
    ELSE LET key == entries[1][1]
             val == entries[1][2]
             processedVal == IF key = ADDRESS THEN toChecksumAddress(val) ELSE val
             enc == encodeURIComponent(processedVal)
             rest == PushParameters(Tail(entries))
         IN  IF enc.thrown THEN Throw
             ELSE IF rest.thrown THEN Throw
             ELSE Return(<<key \o <<"=">> \o enc.val>> \o rest.val)

\* mutant of generateEIP681URL: the test queryParams.length > 0 is dropped
generateEIP681URL_trailingQuestionMark(params) ==
    LET url2 == ETHEREUM \o toChecksumAddress(params.address)
                \o ChainSegment(params.chainId)
                \o (IF Truthy(params.functionName)
                    THEN <<"/">> \o params.functionName[1]
                    ELSE <<>>)
        custom == IF params.parameters # None
                  THEN PushParameters(params.parameters[1])
                  ELSE Return(<<>>)
    IN  IF custom.thrown THEN Throw
        ELSE Return(url2 \o <<"?">> \o join(FixedQueryParams(params) \o custom.val, <<"&">>))

generateEIP681URL(params) ==
    LET checksummedAddress == toChecksumAddress(params.address)
        url0 == ETHEREUM \o checksummedAddress
        url1 == url0 \o ChainSegment(params.chainId)
        url2 == IF Truthy(params.functionName)
                THEN url1 \o <<"/">> \o params.functionName[1]
                ELSE url1
        fixed == FixedQueryParams(params)
        custom == IF params.parameters # None
                  THEN PushParameters(params.parameters[1])
                  ELSE Return(<<>>)
        queryParams == fixed \o custom.val
    IN  IF custom.thrown THEN Throw
        ELSE IF Len(queryParams) > 0
        THEN Return(url2 \o <<"?">> \o join(queryParams, <<"&">>))
        ELSE Return(url2)

\* amount && amount !== '0' && parseFloat(amount) > 0
PositiveAmount(amount) ==
    /\ amount # <<>>
    /\ amount # <<"0">>
    /\ GreaterThanZero(parseFloat(amount))

\* mutant of generateTokenTransferURL: token contract and recipient change places
generateTokenTransferURL_swapped(tokenAddress, toAddress, amount, chainId) ==
    generateEIP681URL(
        EIP681Params(chainId, toChecksumAddress(toAddress), Some(TRANSFER),
                     None, None, None, None,
                     Some(<<<<ADDRESS, toChecksumAddress(tokenAddress)>>>>
                          \o (IF PositiveAmount(amount)
                              THEN <<<<UINT256, amount>>>>
                              ELSE <<>>))))

generateTokenTransferURL(tokenAddress, toAddress, amount, chainId) ==
    generateEIP681URL(
        EIP681Params(chainId, toChecksumAddress(tokenAddress), Some(TRANSFER),
                     None, None, None, None,
                     Some(<<<<ADDRESS, toChecksumAddress(toAddress)>>>>
                          \o (IF PositiveAmount(amount)
                              THEN <<<<UINT256, amount>>>>
                              ELSE <<>>))))

\* mutant of NativeQuery: the gas limit is pushed under the key gasLimit
NativeQuery_gasLimitKey(valuePairs, gasLimit, gasPrice) ==
    valuePairs
    \o QueryParam(GASLIMIT, gasLimit, Truthy(gasLimit))
    \o QueryParam(GASPRICE, gasPrice, Truthy(gasPrice))

\* the query of the two native-transfer paths: value, gas (from gasLimit), gasPrice
NativeQuery(valuePairs, gasLimit, gasPrice) ==
    valuePairs
    \o QueryParam(GAS, gasLimit, Truthy(gasLimit))
    \o QueryParam(GASPRICE, gasPrice, Truthy(gasPrice))

generateETHTransferURL(toAddress, value, chainId, gasLimit, gasPrice) ==
    LET checksummedToAddress == toChecksumAddress(toAddress)
        url0 == ETHEREUM \o checksummedToAddress
        url1 == url0 \o NativeChainSegment(chainId)
        scientificNotation == replaceEPlus(timesPow10toExponential(parseFloat(value)))
        queryParams ==
            NativeQuery(IF PositiveAmount(value)
                        THEN <<VALUE \o <<"=">> \o scientificNotation>>
                        ELSE <<>>,
                        gasLimit, gasPrice)
    IN  IF Len(queryParams) > 0
        THEN Return(url1 \o <<"?">> \o join(queryParams, <<"&">>))
        ELSE Return(url1)

\* a TransactionFormData object
TransactionFormData(chainId, toAddress, value, tokenAddress, gasLimit, gasPrice) ==
    [chainId |-> chainId, toAddress |-> toAddress, value |-> value,
     tokenAddress |-> tokenAddress, gasLimit |-> gasLimit, gasPrice |-> gasPrice]

\* value || ''
OrEmpty(o) == IF Truthy(o) THEN o[1] ELSE <<>>

formDataToEIP681URL(formData) ==
    IF Truthy(formData.tokenAddress)
    THEN generateTokenTransferURL(formData.tokenAddress[1], formData.toAddress,
                                  OrEmpty(formData.value), formData.chainId)
    ELSE LET checksummedToAddress == toChecksumAddress(formData.toAddress)
             url0 == ETHEREUM \o checksummedToAddress
             url1 == url0 \o NativeChainSegment(formData.chainId)
             queryParams ==
                 NativeQuery(IF Truthy(formData.value) /\ PositiveAmount(formData.value[1])
                             THEN <<VALUE \o <<"=">> \o formData.value[1]>>
                             ELSE <<>>,
                             formData.gasLimit, formData.gasPrice)
         IN  IF Len(queryParams) > 0
             THEN Return(url1 \o <<"?">> \o join(queryParams, <<"&">>))
             ELSE Return(url1)

\* the value parseEIP681URL returns: null, or the record it builds
Null == [null |-> TRUE]

\* mutant of hasScheme: the colon of the prefix is not compared
hasScheme_withoutColon(url) == startsWith(url, SubSeq(ETHEREUM, 1, 8))

\* url.startsWith('ethereum:')
hasScheme(url) == startsWith(url, ETHEREUM)

\* Object.fromEntries(Object.entries(parameters).map(...)) of the result
ChecksumAddressEntries(obj) ==
    Object_fromEntries([i \in 1..Len(obj) |->
        <<obj[i][1],
          IF obj[i][1] = ADDRESS THEN toChecksumAddress(obj[i][2]) ELSE obj[i][2]>>])

\* no call inside the try block can throw (toChecksumAddress catches getAddress,
\* URLSearchParams and parseInt accept every string), so the catch returns nothing
parseEIP681URL(url) ==
    IF ~hasScheme(url) THEN Null
    ELSE
    LET withoutScheme == substring(url, 9)
        pieces == split(withoutScheme, "?")
        addressPart == pieces[1]
        queryString == At(pieces, 2)
        hasChain == includes(addressPart, "@")
        parts == split(addressPart, "@")
        chainPart == parts[2]
        hasFunc == hasChain /\ includes(chainPart, "/")
        chainFunc == split(chainPart, "/")
        address1 == IF hasChain THEN parts[1] ELSE addressPart
        chainId == IF ~hasChain THEN None
                   ELSE IF hasFunc THEN Some(parseInt(chainFunc[1]))
                   ELSE Some(parseInt(chainPart))
        functionName1 == IF hasFunc THEN Some(chainFunc[2]) ELSE None
        noChainFunc == ~Truthy(functionName1) /\ includes(address1, "/")
        addrFunc == split(address1, "/")
        address == IF noChainFunc THEN addrFunc[1] ELSE address1
        functionName == IF noChainFunc THEN Some(addrFunc[2]) ELSE functionName1
        parameters == IF Truthy(queryString)
                      THEN AssignAll(EmptyObject, URLSearchParams(queryString[1]))
                      ELSE EmptyObject
    IN  [null |-> FALSE,
         scheme |-> <<"e", "t", "h", "e", "r", "e", "u", "m">>,
         address |-> toChecksumAddress(address),
         chainId |-> chainId,
         functionName |-> functionName,
         parameters |-> IF Len(Object_keys(parameters)) > 0
                        THEN Some(ChecksumAddressEntries(parameters))
                        ELSE None]

validateAddress(address) ==
    LET r == getAddress(address)
    IN  IF r.thrown THEN FALSE ELSE isAddress(r.val)

\* mutant of validateChainId: zero is accepted
validateChainId_acceptsZero(chainId) == Number_isInteger(chainId) /\ chainId.n >= 0

validateChainId(chainId) == Number_isInteger(chainId) /\ chainId.n > 0

validateEIP681URL(url) ==
    IF ~hasScheme(url) THEN FALSE
    ELSE LET parsed == parseEIP681URL(url)
         IN  IF parsed.null THEN FALSE
             ELSE IF ~validateAddress(parsed.address) THEN FALSE
             ELSE IF parsed.chainId # None /\ ~validateChainId(parsed.chainId[1]) THEN FALSE
             ELSE TRUE

(***************************************************************************)
(* The codec of src/src/utils/eip681.ts: no checksumming, chain 1 omitted  *)
(* on every encode path, recognized query keys decoded into fields.        *)
(***************************************************************************)
ChainSegment_srcUtils(chainId) ==
    IF TruthyNum(chainId) /\ chainId[1] # Num(1)
    THEN <<"@">> \o NumberToString(chainId[1])
    ELSE <<>>

FixedQueryParams_srcUtils(params) ==
    QueryParam(VALUE, params.value, Truthy(params.value) /\ params.value[1] # <<"0">>)
    \o QueryParam(GAS, params.gas, Truthy(params.gas))
    \o QueryParam(GASLIMIT, params.gasLimit, Truthy(params.gasLimit))
    \o QueryParam(GASPRICE, params.gasPrice, Truthy(params.gasPrice))

RECURSIVE PushParameters_srcUtils(_)
PushParameters_srcUtils(entries) ==
    IF Len(entries) = 0 THEN Return(<<>>)
    ELSE LET enc == encodeURIComponent(entries[1][2])
             rest == PushParameters_srcUtils(Tail(entries))
         IN  IF enc.thrown THEN Throw
             ELSE IF rest.thrown THEN Throw
             ELSE Return(<<entries[1][1] \o <<"=">> \o enc.val>> \o rest.val)

generateEIP681URL_srcUtils(params) ==
    LET url0 == ETHEREUM \o params.address
        url1 == url0 \o ChainSegment_srcUtils(params.chainId)
        url2 == IF Truthy(params.functionName)
                THEN url1 \o <<"/">> \o params.functionName[1]
                ELSE url1
        fixed == FixedQueryParams_srcUtils(params)
        custom == IF params.parameters # None
                  THEN PushParameters_srcUtils(params.parameters[1])
                  ELSE Return(<<>>)
        queryParams == fixed \o custom.val
    IN  IF custom.thrown THEN Throw
        ELSE IF Len(queryParams) > 0
        THEN Return(url2 \o <<"?">> \o join(queryParams, <<"&">>))
        ELSE Return(url2)

generateTokenTransferURL_srcUtils(tokenAddress, toAddress, amount, chainId) ==
    generateEIP681URL_srcUtils(
        EIP681Params(chainId, tokenAddress, Some(TRANSFER), None, None, None, None,
                     Some(<<<<ADDRESS, toAddress>>>>
                          \o (IF PositiveAmount(amount)
                              THEN <<<<UINT256, amount>>>>
                              ELSE <<>>))))

generateETHTransferURL_srcUtils(toAddress, value, chainId, gasLimit, gasPrice) ==
    generateEIP681URL_srcUtils(
        EIP681Params(chainId, toAddress, None,
                     IF PositiveAmount(value) THEN Some(value) ELSE None,
                     None, gasLimit, gasPrice, None))

formDataToEIP681URL_srcUtils(formData) ==
    IF Truthy(formData.tokenAddress)
    THEN generateTokenTransferURL_srcUtils(formData.tokenAddress[1], formData.toAddress,
                                           OrEmpty(formData.value), formData.chainId)
    ELSE generateETHTransferURL_srcUtils(formData.toAddress, OrEmpty(formData.value),
                                         formData.chainId, formData.gasLimit,
                                         formData.gasPrice)

\* the switch over the query keys: the last value of a recognized key
RECURSIVE LastValue(_, _)
LastValue(entries, key) ==
    IF Len(entries) = 0 THEN None
    ELSE IF entries[Len(entries)][1] = key THEN Some(entries[Len(entries)][2])
    ELSE LastValue(SubSeq(entries, 1, Len(entries) - 1), key)

RecognizedKeys == {VALUE, GAS, GASLIMIT, GASPRICE}

RECURSIVE OtherEntries(_)
OtherEntries(entries) ==
    IF Len(entries) = 0 THEN <<>>
    ELSE (IF entries[1][1] \in RecognizedKeys THEN <<>> ELSE <<entries[1]>>)
         \o OtherEntries(Tail(entries))

hasScheme_srcUtils(url) == startsWith(url, ETHEREUM)

parseEIP681URL_srcUtils(url) ==
    IF ~hasScheme_srcUtils(url) THEN Null
    ELSE
    LET withoutScheme == substring(url, 9)
        pieces == split(withoutScheme, "?")
        addressPart == pieces[1]
        queryString == At(pieces, 2)
        hasChain == includes(addressPart, "@")
        parts == split(addressPart, "@")
        address1 == IF hasChain THEN parts[1] ELSE addressPart
        chainId == IF hasChain THEN Some(parseInt(parts[2])) ELSE None
        hasFunc == includes(address1, "/")
        addrFunc == split(address1, "/")
        address == IF hasFunc THEN addrFunc[1] ELSE address1
        functionName == IF hasFunc THEN Some(addrFunc[2]) ELSE None
        entries == IF Truthy(queryString) THEN URLSearchParams(queryString[1]) ELSE <<>>
        parameters == AssignAll(EmptyObject, OtherEntries(entries))
    IN  [null |-> FALSE,
         chainId |-> chainId,
         address |-> address,
         functionName |-> functionName,
         value |-> LastValue(entries, VALUE),
         gas |-> LastValue(entries, GAS),
         gasLimit |-> LastValue(entries, GASLIMIT),
         gasPrice |-> LastValue(entries, GASPRICE),
         parameters |-> IF Len(Object_keys(parameters)) > 0
                        THEN Some(parameters)
                        ELSE None]

validateAddress_srcUtils(address) == isAddress(address)

(***************************************************************************)
(* Unit conversion: a decimal amount times 10^decimals.  The product is    *)
(* kept as its integer part and the digits after the point; the amounts    *)
(* of this model are dyadic (halves and quarters), for which the double    *)
(* arithmetic of the source is exact.                                      *)
(***************************************************************************)
RECURSIVE Pow10(_)
Pow10(n) == IF n = 0 THEN 1 ELSE 10 * Pow10(n - 1)

RECURSIVE Zeros(_)
Zeros(n) == IF n = 0 THEN <<>> ELSE <<"0">> \o Zeros(n - 1)

\* x * Math.pow(10, decimals) for x = parseFloat(..), not NaN
timesPow10(x, decimals) ==
    LET n == Len(x.digits)
        p == x.point + decimals
    IN  IF p >= n
        THEN [neg |-> x.neg, int |-> DigitsValue(x.digits) * Pow10(p - n), frac |-> <<>>]
        ELSE IF p >= 0
        THEN [neg |-> x.neg, int |-> DigitsValue(SubSeq(x.digits, 1, p)),
              frac |-> SubSeq(x.digits, p + 1, n)]
        ELSE [neg |-> x.neg, int |-> 0, frac |-> Zeros(0 - p) \o x.digits]

\* Math.floor: the greatest integer not above y
Math_floor(y) ==
    IF y.neg THEN 0 - (IF y.frac # <<>> THEN y.int + 1 ELSE y.int) ELSE y.int

\* the digits after the point are at least one half / more than one half
AtLeastHalf(frac) == frac # <<>> /\ DigitVal(frac[1]) >= 5
MoreThanHalf(frac) ==
    /\ AtLeastHalf(frac)
    /\ DigitVal(frac[1]) > 5 \/ Len(frac) > 1

\* Math.round: the nearest integer, a half going up (towards +Infinity)
Math_round(y) ==
    IF y.neg THEN 0 - (IF MoreThanHalf(y.frac) THEN y.int + 1 ELSE y.int)
    ELSE IF AtLeastHalf(y.frac) THEN y.int + 1 ELSE y.int

\* formatTokenAmount(amount, decimals): BigInt(NaN) throws a RangeError
formatTokenAmount(amount, decimals) ==
    LET amountValue == parseFloat(amount)
    IN  IF amountValue.nan THEN Throw
        ELSE LET tokenUnits == Math_floor(timesPow10(amountValue, decimals))
             IN  Return(NumberToString(Num(tokenUnits)))

\* the while loop of parseUnits: divide by 10 while the coefficient is at least
\* 10 and a multiple of 10, counting the divisions
RECURSIVE Coefficient(_, _)
Coefficient(coefficient, exponent) ==
    IF coefficient >= 10 /\ coefficient % 10 = 0
    THEN Coefficient(coefficient \div 10, exponent + 1)
    ELSE [coefficient |-> coefficient, exponent |-> exponent]

\* parseUnits(value, decimals) of the form
parseUnits(value, decimals) ==
    IF value = <<>> \/ value = <<"0">> THEN <<"0">>
    ELSE LET numericValue == parseFloat(value)
         IN  IF numericValue.nan \/ numericValue.digits = <<>> THEN <<"0">>
             ELSE LET baseValue == timesPow10(numericValue, decimals)
                      fullString == NumberToString(Num(Math_floor(baseValue)))
                      c == Coefficient(baseValue.int, 0)
                      scientificForm ==
                          IF c.coefficient = 1 THEN <<"1", "e">> \o NatToString(c.exponent)
                          ELSE NatToString(c.coefficient) \o <<"e">>
                               \o NatToString(c.exponent)
                  IN  IF /\ ~baseValue.neg /\ baseValue.int >= 1000
                         /\ baseValue.frac = <<>>
                         /\ c.exponent > 0
                         /\ Len(scientificForm) < Len(fullString)
                      THEN scientificForm
                      ELSE NumberToString(Num(Math_round(baseValue)))

(***************************************************************************)
(* The inputs the calls are drawn from.                                    *)
(***************************************************************************)
\* all sequences over S of length 0..n
RECURSIVE SeqsUpTo(_, _)
SeqsUpTo(S, n) ==
    IF n = 0 THEN {<<>>}
    ELSE LET shorter == SeqsUpTo(S, n - 1)
         IN  shorter \cup {<<x>> \o t : x \in S, t \in {u \in shorter : Len(u) = n - 1}}

\* one address in its casings, and two malformed ones
AddressInputs == {<<A_LOWER>>, <<A_MIXED>>, <<A_UPPER>>, <<A_CHECK>>, <<"x">>,
                  <<"0", "x", "1", "2">>}
TokenInputs == {<<T_LOWER>>, <<T_MIXED>>, <<T_CHECK>>}

MAINNET == 1
BASE == 8453
ChainInputs == {None, Some(Num(0)), Some(Num(MAINNET)), Some(Num(BASE)), Some(NaN)}

FunctionInputs == {None, Some(<<>>), Some(TRANSFER)}

\* wei amounts: undefined, empty, zero in two spellings, negative, positive
ValueInputs == {None, Some(<<>>), Some(<<"0">>), Some(<<"0", ".", "0">>),
                Some(<<"-", "1">>), Some(<<"1", "5">>)}

\* ether amounts of generateETHTransferURL (products with 10^18 exact in a double)
EtherInputs == {<<>>, <<"0">>, <<"-", "1">>, <<"1", ".", "5">>, <<"1", "5">>,
                <<"0", ".", "5">>}

GasInputs == {None, Some(<<"0">>), Some(<<"2", "1">>)}
GasLimitInputs == {None, Some(<<>>), Some(<<"3">>)}
GasPriceInputs == {None, Some(<<"4">>)}

\* the entries a parameters object is built from
ParameterEntries ==
    {<<ADDRESS, <<A_MIXED>>>>, <<ADDRESS, <<A_CHECK>>>>, <<ADDRESS, <<"x">>>>, <<UINT256, <<"1", "0", "0">>>>,
     <<(<<"k">>), <<"a", " ", "b">>>>, <<(<<"k">>), <<"&", "=">>>>,
     <<(<<"k">>), <<LONE_SURROGATE>>>>, <<(<<"7">>), <<"v">>>>,
     <<(<<"1", "0">>), <<"w">>>>, <<(<<"b">>), <<>>>>}

ParameterObjects ==
    {Object_fromEntries(es) : es \in SeqsUpTo(ParameterEntries, MaxParams)}

\* intents that vary the address, chain and function segments
HeadIntents ==
    {EIP681Params(c, a, f, v, None, None, None, p) :
        c \in ChainInputs, a \in AddressInputs, f \in FunctionInputs,
        v \in {None, Some(<<"1", "5">>)},
        p \in {None, Some(<<<<ADDRESS, <<A_MIXED>>>>>>)}}

\* intents that vary the four fixed query fields
FixedQueryIntents ==
    {EIP681Params(c, <<A_MIXED>>, None, v, g, gl, gp, p) :
        c \in {None, Some(Num(BASE))}, v \in ValueInputs, g \in GasInputs,
        gl \in GasLimitInputs, gp \in GasPriceInputs,
        p \in {None, Some(EmptyObject),
               Some(<<<<UINT256, <<"1", "0", "0">>>>, <<(<<"k">>), <<"a", " ", "b">>>>>>)}}

\* intents that vary the parameters object
ParameterIntents ==
    {EIP681Params(None, <<A_MIXED>>, f, v, None, None, gp, Some(p)) :
        f \in {None, Some(TRANSFER)}, v \in {None, Some(<<"1", "5">>)},
        gp \in GasPriceInputs, p \in ParameterObjects}

IntentInputs == HeadIntents \cup FixedQueryIntents \cup ParameterIntents

TokenTransferInputs ==
    [tokenAddress : TokenInputs \cup {<<"x">>}, toAddress : AddressInputs,
     amount : {<<>>, <<"0">>, <<"0", ".", "0">>, <<"-", "1">>, <<"1", "0", "0">>},
     chainId : ChainInputs]

ETHTransferInputs ==
    [toAddress : AddressInputs, value : EtherInputs, chainId : ChainInputs,
     gasLimit : GasLimitInputs, gasPrice : GasPriceInputs]

FormDataInputs ==
    {TransactionFormData(c, a, v, t, gl, gp) :
        c \in ChainInputs, a \in AddressInputs, v \in ValueInputs,
        t \in {None, Some(<<>>), Some(<<T_MIXED>>)},
        gl \in {None, Some(<<"3">>)}, gp \in GasPriceInputs}

\* the segments a URL head is put together from
AddressSegments == {<<>>, <<A_MIXED>>, <<A_CHECK>>, <<"x">>}
ChainSegments ==
    {<<>>, <<"@">>, <<"@", "1">>, <<"@", "0">>, <<"@", "x">>, <<"@", "-", "1">>,
     <<"@", "1", "x">>, <<"@", "8", "4", "5", "3">>, <<"@", "5", "@", "6">>}
FunctionSegments ==
    {<<>>, <<"/">>, <<"/">> \o TRANSFER, <<"/", "f", "/", "g">>}

Heads ==
    {a \o c \o f : a \in AddressSegments, c \in ChainSegments, f \in FunctionSegments}
    \cup {a \o f \o c : a \in AddressSegments, c \in ChainSegments, f \in FunctionSegments}

BasicHeads == {<<A_MIXED>>, <<A_MIXED, "@", "8", "4", "5", "3", "/">> \o TRANSFER}

\* the raw key=value pieces a query string is put together from
RawPairs ==
    {VALUE \o <<"=", "0">>, VALUE \o <<"=", "1", "5">>, GAS \o <<"=", "2", "1">>,
     ADDRESS \o <<"=", A_MIXED>>, UINT256 \o <<"=", "1", "0", "0">>,
     <<"k", "=", "v">>, <<"k", "=", "a", "+", "b">>, <<"k", "=", "%", "2", "6">>,
     <<"a", "%", "2", "6", "b", "=", "v">>, <<"7", "=", "v">>, <<"k">>, <<>>,
     <<"k", "=", "x", "?", "y">>, <<"k", "=", LONE_SURROGATE>>}

Queries == {<<"?">> \o join(ps, <<"&">>) : ps \in SeqsUpTo(RawPairs, MaxPairs)}

BasicQueries == {<<>>, <<"?">>, <<"?">> \o VALUE \o <<"=", "1", "5">>}

URLInputs ==
    {ETHEREUM \o h \o q : h \in Heads, q \in BasicQueries}
    \cup {ETHEREUM \o h \o q : h \in BasicHeads, q \in Queries}
    \cup {<<>>, <<"n", "o", "t", "-", "a", "-", "u", "r", "l">>,
          BITCOIN \o <<A_MIXED>>, <<"e", "t", "h", "e", "r", "e", "u", "m">> \o <<A_MIXED>>,
          <<"E", "t", "h", "e", "r", "e", "u", "m", ":">> \o <<A_MIXED>>,
          <<" ">> \o ETHEREUM \o <<A_MIXED>>}

(***************************************************************************)
(* Token search (src/src/utils/tokenSearch.ts).  Token and pair addresses  *)
(* are written by their first characters, as the unit tests write '0x123'; *)
(* a token's logoURI, a function of its address and chain, is left out.    *)
(***************************************************************************)
UpperCaseLetters == <<"A", "B", "C", "D", "E", "F", "G", "H", "I", "J", "K", "L", "M",
                      "N", "O", "P", "Q", "R", "S", "T", "U", "V", "W", "X", "Y", "Z">>
LowerCaseLetters == <<"a", "b", "c", "d", "e", "f", "g", "h", "i", "j", "k", "l", "m",
                      "n", "o", "p", "q", "r", "s", "t", "u", "v", "w", "x", "y", "z">>

LowerChar(c) ==
    IF \E i \in 1 .. 26 : UpperCaseLetters[i] = c
    THEN LowerCaseLetters[CHOOSE i \in 1 .. 26 : UpperCaseLetters[i] = c]
    ELSE c

UpperChar(c) ==
    IF \E i \in 1 .. 26 : LowerCaseLetters[i] = c
    THEN UpperCaseLetters[CHOOSE i \in 1 .. 26 : LowerCaseLetters[i] = c]
    ELSE c

\* String.prototype.toLowerCase / toUpperCase on a string of characters
toLowerCaseString(s) == [i \in 1 .. Len(s) |-> LowerChar(s[i])]
toUpperCaseString(s) == [i \in 1 .. Len(s) |-> UpperChar(s[i])]

\* String.prototype.includes with a string argument
includesString(s, sub) ==
    \E i \in 0 .. Len(s) - Len(sub) : SubSeq(s, i + 1, i + Len(sub)) = sub

\* parseInt(s, 16): white space, a sign, an optional 0x, then the hex digits up
\* to the first character that is none; NaN when there is no digit
HexDigitValue(c) ==
    IF c \in DigitSet THEN DigitVal(c)
    ELSE 10 + ((CHOOSE i \in 1 .. 6 : LowerCaseLetters[i] = LowerChar(c)) - 1)

RECURSIVE HexPrefixValue(_, _, _)
HexPrefixValue(s, i, acc) ==
    IF i <= Len(s) /\ IsHex(s[i]) THEN HexPrefixValue(s, i + 1, 16 * acc + HexDigitValue(s[i]))
    ELSE acc

parseInt16(s) ==
    LET i == SkipSpace(s, 1)
        neg == i <= Len(s) /\ s[i] = "-"
        j == IF i <= Len(s) /\ s[i] \in {"-", "+"} THEN i + 1 ELSE i
        k == IF j + 1 <= Len(s) /\ s[j] = "0" /\ s[j + 1] \in {"x", "X"} THEN j + 2 ELSE j
    IN  IF ~(k <= Len(s) /\ IsHex(s[k])) THEN NaN
        ELSE Num(IF neg THEN 0 - HexPrefixValue(s, k, 0) ELSE HexPrefixValue(s, k, 0))

\* the chain ids of the model: Ethereum and Cronos (known to DexScreener, Cronos
\* without a pre-populated USDC), Gnosis (not known to DexScreener) and a chain
\* id that is on no list
CRONOS == 25
GNOSIS == 100
UNKNOWN_CHAIN == 99999
ChainIds == {1, CRONOS, GNOSIS, UNKNOWN_CHAIN}

\* CHAIN_ID_MAP read backwards: our chain id to the DexScreener chain id
REVERSE_CHAIN_ID_MAP(chainId) ==
    CASE chainId = 1 -> Some("ethereum")
      [] chainId = CRONOS -> Some("cronos")
      [] OTHER -> None

Token(chainId, address, name, symbol, decimals) ==
    [chainId |-> chainId, address |-> address, name |-> name, symbol |-> symbol,
     decimals |-> decimals]

USD_COIN == <<"U", "S", "D", " ", "C", "o", "i", "n">>
USDC == <<"U", "S", "D", "C">>
USDC_ETHEREUM == <<"0", "x", "A", "0", "b", "8">>

\* USDC_CACHE as the module creates it (of its chains, the model has Ethereum);
\* a chain without an entry has the empty sequence
USDC_CACHE_initial ==
    [c \in ChainIds |->
        IF c = 1 THEN <<Token(1, USDC_ETHEREUM, USD_COIN, USDC, 6)>> ELSE <<>>]

\* what chainlist.org (or the fallback list) gives for the chains of the model:
\* Cronos comes without an RPC URL
ExtendedChain(chainId, name, rpc, symbol) ==
    [chainId |-> chainId, name |-> name, rpc |-> rpc,
     nativeCurrency |-> [symbol |-> symbol, decimals |-> 18]]

LoadedChains ==
    <<ExtendedChain(1, "Ethereum Mainnet", <<"https://eth.llamarpc.com">>,
                    <<"E", "T", "H">>),
      ExtendedChain(CRONOS, "Cronos Mainnet", <<>>, <<"C", "R", "O">>),
      ExtendedChain(GNOSIS, "Gnosis", <<"https://rpc.gnosischain.com">>,
                    <<"x", "D", "A", "I">>)>>

\* CHAINS.find(c => c.chainId === chainId)
FindChain(chains, chainId) ==
    IF \E i \in 1 .. Len(chains) : chains[i].chainId = chainId
    THEN Some(chains[CHOOSE i \in 1 .. Len(chains) :
                       /\ chains[i].chainId = chainId
                       /\ \A j \in 1 .. i - 1 : chains[j].chainId # chainId])
    ELSE None

FALLBACK_DECIMALS == 18
MAX_DECIMALS == 77

\* `${chainId}-${address.toLowerCase()}`
CacheKey(address, chainId) == <<chainId, toLowerCaseString(address)>>

MapSet(f, k, v) == [x \in DOMAIN f \cup {k} |-> IF x = k THEN v ELSE f[x]]

\* mutant of DecimalsOf: any byte is taken for a number of decimals
DecimalsOf_upTo255(response) ==
    IF response.rejected \/ response.result = None \/ response.result = Some(<<>>)
       \/ response.result = Some(<<"0", "x">>)
    THEN FALLBACK_DECIMALS
    ELSE LET decimals == parseInt16(response.result[1])
         IN  IF ~decimals.nan /\ decimals.n >= 0 /\ decimals.n <= 255
             THEN decimals.n ELSE FALLBACK_DECIMALS

\* getTokenDecimals from the response of the RPC on: the decimals the call
\* stores and returns.  A rejected fetch goes through the catch block.
DecimalsOf(response) ==
    IF response.rejected \/ response.result = None \/ response.result = Some(<<>>)
       \/ response.result = Some(<<"0", "x">>)
    THEN FALLBACK_DECIMALS
    ELSE LET decimals == parseInt16(response.result[1])
         IN  IF ~decimals.nan /\ decimals.n >= 0 /\ decimals.n <= MAX_DECIMALS
             THEN decimals.n ELSE FALLBACK_DECIMALS

\* getTokenDecimals up to its fetch: the cached number, the fallback (which it
\* stores) for a chain that is not in CHAINS or has no RPC URL, or the fetch
DecimalsBeforeFetch(cache, chains, address, chainId) ==
    LET cacheKey == CacheKey(address, chainId)
        chain == FindChain(chains, chainId)
    IN  IF cacheKey \in DOMAIN cache
        THEN [fetch |-> FALSE, hit |-> TRUE, chain |-> None,
              decimals |-> cache[cacheKey], cache |-> cache]
        ELSE IF chain = None \/ chain[1].rpc = <<>>
        THEN [fetch |-> FALSE, hit |-> FALSE, chain |-> chain,
              decimals |-> FALLBACK_DECIMALS,
              cache |-> MapSet(cache, cacheKey, FALLBACK_DECIMALS)]
        ELSE [fetch |-> TRUE, hit |-> FALSE, chain |-> chain, decimals |-> 0,
              cache |-> cache]

\* the query asks for USDC: queryLower === 'usdc' || queryLower === 'usd coin'
IsUsdcQuery_caseSensitive(query) ==
    query \in {toLowerCaseString(USDC), toLowerCaseString(USD_COIN)}

IsUsdcQuery(query) ==
    toLowerCaseString(query) \in {toLowerCaseString(USDC), toLowerCaseString(USD_COIN)}

\* searchTokensOnDexScreener up to its fetch: the tokens it returns at once, or
\* the fetch
SearchBeforeFetch(usdcCache, chains, query, chainId) ==
    IF query = <<>> \/ Len(query) < 2 THEN [fetch |-> FALSE, tokens |-> <<>>]
    ELSE IF IsUsdcQuery(query) /\ usdcCache[chainId] # <<>>
    THEN [fetch |-> FALSE, tokens |-> usdcCache[chainId]]
    ELSE IF FindChain(chains, chainId) = None \/ REVERSE_CHAIN_ID_MAP(chainId) = None
    THEN [fetch |-> FALSE, tokens |-> <<>>]
    ELSE [fetch |-> TRUE, tokens |-> <<>>]

ZERO_ADDRESS == <<"0", "x", "0", "0", "0", "0">>

\* [pair.baseToken, pair.quoteToken] of every pair, in order
RECURSIVE PairTokens(_)
PairTokens(pairs) ==
    IF pairs = <<>> THEN <<>>
    ELSE <<[pair |-> Head(pairs), tokenData |-> Head(pairs).baseToken],
           [pair |-> Head(pairs), tokenData |-> Head(pairs).quoteToken]>>
         \o PairTokens(Tail(pairs))

\* the token data the two loops of the search get decimals for: of the right
\* chain, not the native token, matching the query, and not seen before
RECURSIVE Candidates(_, _, _, _)
Candidates(pairTokens, query, dexScreenerChainId, seenAddresses) ==
    IF pairTokens = <<>> THEN <<>>
    ELSE LET tokenData == Head(pairTokens).tokenData
             symbolMatch == includesString(toLowerCaseString(tokenData.symbol),
                                           toLowerCaseString(query))
             nameMatch == includesString(toLowerCaseString(tokenData.name),
                                         toLowerCaseString(query))
             skip == \/ Head(pairTokens).pair.chainId # dexScreenerChainId
                     \/ tokenData.address = ZERO_ADDRESS
                     \/ ~symbolMatch /\ ~nameMatch
                     \/ toLowerCaseString(tokenData.address) \in seenAddresses
         IN  IF skip
             THEN Candidates(Tail(pairTokens), query, dexScreenerChainId, seenAddresses)
             ELSE <<tokenData>>
                  \o Candidates(Tail(pairTokens), query, dexScreenerChainId,
                                seenAddresses \cup {toLowerCaseString(tokenData.address)})

\* "Cache USDC tokens for future use": a token whose symbol is USDC is added to
\* USDC_CACHE[chainId] unless one of the same address is there
CacheUsdc(usdcCache, token) ==
    IF toUpperCaseString(token.symbol) # USDC THEN usdcCache
    ELSE LET cached == usdcCache[token.chainId]
             exists == \E i \in 1 .. Len(cached) :
                          toLowerCaseString(cached[i].address)
                              = toLowerCaseString(token.address)
         IN  IF exists THEN usdcCache
             ELSE [usdcCache EXCEPT ![token.chainId] = Append(cached, token)]

\* aPair?.volume?.h24 || 0 of the first pair that has the address on either side
VolumeOf(address, pairs) ==
    IF \E i \in 1 .. Len(pairs) :
           pairs[i].baseToken.address = address \/ pairs[i].quoteToken.address = address
    THEN pairs[CHOOSE i \in 1 .. Len(pairs) :
                 /\ pairs[i].baseToken.address = address
                    \/ pairs[i].quoteToken.address = address
                 /\ \A j \in 1 .. i - 1 :
                        /\ pairs[j].baseToken.address # address
                        /\ pairs[j].quoteToken.address # address].volume
    ELSE 0

\* tokens.sort((a, b) => bVolume - aVolume): stable, the highest volume first
RECURSIVE InsertByVolume(_, _, _)
InsertByVolume(sorted, token, pairs) ==
    IF sorted = <<>> THEN <<token>>
    ELSE IF VolumeOf(Head(sorted).address, pairs) >= VolumeOf(token.address, pairs)
    THEN <<Head(sorted)>> \o InsertByVolume(Tail(sorted), token, pairs)
    ELSE <<token>> \o sorted

RECURSIVE SortByVolume(_, _)
SortByVolume(tokens, pairs) ==
    IF tokens = <<>> THEN <<>>
    ELSE InsertByVolume(SortByVolume(SubSeq(tokens, 1, Len(tokens) - 1), pairs),
                        tokens[Len(tokens)], pairs)

\* Array.prototype.slice(0, 10)
SliceTen(s) == SubSeq(s, 1, IF Len(s) < 10 THEN Len(s) ELSE 10)

(***************************************************************************)
(* The token search as a state machine.  A call of an async function is a  *)
(* record in decimalsCalls or searchCalls: it runs up to its fetch when it *)
(* is made, and from the response of the fetch on when the response comes, *)
(* so calls overlap.  getTokenDecimals called by a search (caller is the   *)
(* index of the search, 0 for a call from outside) that needs no fetch     *)
(* runs within the step of the search.                                     *)
(***************************************************************************)
\* the calls of getTokenDecimals and searchTokensOnDexScreener made from outside
MaxTokenCalls == 2

TOKEN_AB == <<"0", "x", "a", "b">>
TOKEN_AB_UPPER == <<"0", "x", "A", "B">>
TOKEN_CD == <<"0", "x", "c", "d">>
TOKEN_EF == <<"0", "x", "e", "f">>

\* getTokenDecimals is called for one token in two casings on Ethereum, and on
\* a chain without an RPC URL and a chain that is on no list
DecimalsCallInputs ==
    {[address |-> TOKEN_AB, chainId |-> 1], [address |-> TOKEN_AB_UPPER, chainId |-> 1],
     [address |-> TOKEN_AB, chainId |-> CRONOS],
     [address |-> TOKEN_AB, chainId |-> UNKNOWN_CHAIN]}

\* what the RPC fetch may give: a rejection, a body without result, '0x', a
\* number of decimals (6, 77, 79), something that is no number
RpcResponse(rejected, result) == [rejected |-> rejected, result |-> result]
RpcResponses ==
    {RpcResponse(TRUE, None), RpcResponse(FALSE, None),
     RpcResponse(FALSE, Some(<<"0", "x">>)), RpcResponse(FALSE, Some(<<"0", "x", "6">>)),
     RpcResponse(FALSE, Some(<<"0", "x", "4", "D">>)),
     RpcResponse(FALSE, Some(<<"0", "x", "4", "F">>)),
     RpcResponse(FALSE, Some(<<"z", "z">>))}

USD == <<"u", "s", "d">>
SearchInputs ==
    {[query |-> <<>>, chainId |-> 1], [query |-> <<"U">>, chainId |-> 1],
     [query |-> USD, chainId |-> 1], [query |-> USDC, chainId |-> 1],
     [query |-> <<"U", "s", "d", " ", "C", "o", "i", "n">>, chainId |-> 1],
     [query |-> USD, chainId |-> CRONOS], [query |-> USDC, chainId |-> CRONOS],
     [query |-> USD, chainId |-> GNOSIS], [query |-> USDC, chainId |-> UNKNOWN_CHAIN]}

TokenData(address, name, symbol) == [address |-> address, name |-> name, symbol |-> symbol]
ETHER == TokenData(ZERO_ADDRESS, <<"E", "t", "h", "e", "r">>, <<"E", "T", "H">>)
Pair(chainId, baseToken, quoteToken, volume) ==
    [chainId |-> chainId, baseToken |-> baseToken, quoteToken |-> quoteToken,
     volume |-> volume]

\* what the DexScreener fetch may give: an error, no pairs, or three pairs (a
\* USDC of another address than the pre-populated one, a USDT quoted in that
\* USDC, a USDC on Cronos)
DexResponse(ok, pairs) == [ok |-> ok, pairs |-> pairs]
DexResponses ==
    {DexResponse(FALSE, <<>>), DexResponse(TRUE, <<>>),
     DexResponse(TRUE,
        <<Pair("ethereum", TokenData(TOKEN_AB, USD_COIN, USDC), ETHER, 2),
          Pair("ethereum",
               TokenData(TOKEN_CD, <<"T", "e", "t", "h", "e", "r", " ", "U", "S", "D">>,
                         <<"U", "S", "D", "T">>),
               TokenData(TOKEN_AB_UPPER, USD_COIN, USDC), 5),
          Pair("cronos", TokenData(TOKEN_EF, USD_COIN, USDC), ETHER, 1)>>)}

\* a call of getTokenDecimals: its arguments, its locals (whether the cache had
\* the key, the chain found, the response of the fetch), where it stands and
\* what it returned
DecimalsCall(address, chainId, caller, before) ==
    [address |-> address, chainId |-> chainId, caller |-> caller,
     pc |-> IF before.fetch THEN "fetch" ELSE "done", ret |-> before.decimals,
     hit |-> before.hit, chain |-> before.chain, fetched |-> before.fetch,
     response |-> None]

\* the loop of the search over the candidates that are left, as far as it runs
\* without waiting for a fetch of getTokenDecimals; at the end of the loop the
\* sort and the slice
RECURSIVE SearchLoop(_, _, _, _)
SearchLoop(search, cache, usdcCache, chains) ==
    IF search.candidates = <<>>
    THEN [search |-> [search EXCEPT !.pc = "done",
                                    !.ret = SliceTen(SortByVolume(search.tokens,
                                                                  search.pairs))],
          cache |-> cache, usdcCache |-> usdcCache, fetch |-> FALSE]
    ELSE LET tokenData == Head(search.candidates)
             before == DecimalsBeforeFetch(cache, chains, tokenData.address, search.chainId)
             token == Token(search.chainId, tokenData.address, tokenData.name,
                            tokenData.symbol, before.decimals)
         IN  IF before.fetch
             THEN [search |-> [search EXCEPT !.pc = "decimals"],
                   cache |-> cache, usdcCache |-> usdcCache, fetch |-> TRUE]
             ELSE SearchLoop([search EXCEPT !.candidates = Tail(search.candidates),
                                            !.tokens = Append(search.tokens, token)],
                             before.cache, CacheUsdc(usdcCache, token), chains)

\* the internal getTokenDecimals call a search waits for, if it waits for one
InternalCalls(loop, caller, chains) ==
    IF loop.fetch
    THEN <<DecimalsCall(Head(loop.search.candidates).address, loop.search.chainId,
                        caller,
                        DecimalsBeforeFetch(loop.cache, chains,
                                            Head(loop.search.candidates).address,
                                            loop.search.chainId))>>
    ELSE <<>>

\* the number of calls made from outside
TokenCalls ==
    Len(searchCalls)
    + Cardinality({i \in 1 .. Len(decimalsCalls) : decimalsCalls[i].caller = 0})

TokenSearchInit ==
    /\ CHAINS = <<>>
    /\ decimalsCache = <<>>
    /\ USDC_CACHE = USDC_CACHE_initial
    /\ decimalsCalls = <<>>
    /\ searchCalls = <<>>

\* getChains().then(chains => { CHAINS.length = 0; CHAINS.push(...chains) })
ChainsLoaded ==
    /\ CHAINS = <<>>
    /\ CHAINS' = LoadedChains
    /\ UNCHANGED <<decimalsCache, USDC_CACHE, decimalsCalls, searchCalls>>
    /\ UNCHANGED notTokenSearch

CallGetTokenDecimals ==
    /\ TokenCalls < MaxTokenCalls
    /\ \E in \in DecimalsCallInputs :
         LET before == DecimalsBeforeFetch(decimalsCache, CHAINS, in.address, in.chainId)
         IN  /\ decimalsCache' = before.cache
             /\ decimalsCalls' = Append(decimalsCalls,
                                        DecimalsCall(in.address, in.chainId, 0, before))
    /\ UNCHANGED <<CHAINS, USDC_CACHE, searchCalls>>
    /\ UNCHANGED notTokenSearch

\* the fetch of a getTokenDecimals call is answered; a search that awaited the
\* call goes on with its loop
FetchDecimalsResponds ==
    /\ \E i \in 1 .. Len(decimalsCalls), response \in RpcResponses :
         /\ decimalsCalls[i].pc = "fetch"
         /\ LET call == decimalsCalls[i]
                decimals == DecimalsOf(response)
                cache == MapSet(decimalsCache, CacheKey(call.address, call.chainId),
                                decimals)
                finished == [decimalsCalls EXCEPT ![i].pc = "done", ![i].ret = decimals,
                                                 ![i].response = Some(response)]
            IN  IF call.caller = 0
                THEN /\ decimalsCache' = cache
                     /\ decimalsCalls' = finished
                     /\ UNCHANGED <<USDC_CACHE, searchCalls>>
                ELSE LET search == searchCalls[call.caller]
                         tokenData == Head(search.candidates)
                         token == Token(search.chainId, tokenData.address,
                                        tokenData.name, tokenData.symbol, decimals)
                         loop == SearchLoop(
                                     [search EXCEPT !.candidates = Tail(search.candidates),
                                                    !.tokens = Append(search.tokens, token)],
                                     cache, CacheUsdc(USDC_CACHE, token), CHAINS)
                     IN  /\ decimalsCache' = loop.cache
                         /\ USDC_CACHE' = loop.usdcCache
                         /\ searchCalls' = [searchCalls EXCEPT ![call.caller] = loop.search]
                         /\ decimalsCalls' = finished \o InternalCalls(loop, call.caller, CHAINS)
    /\ UNCHANGED CHAINS
    /\ UNCHANGED notTokenSearch

CallSearchTokensOnDexScreener ==
    /\ TokenCalls < MaxTokenCalls
    /\ \E in \in SearchInputs :
         LET before == SearchBeforeFetch(USDC_CACHE, CHAINS, in.query, in.chainId)
         IN  searchCalls' = Append(searchCalls,
                 [query |-> in.query, chainId |-> in.chainId,
                  pc |-> IF before.fetch THEN "fetch" ELSE "done",
                  pairs |-> <<>>, candidates |-> <<>>, tokens |-> <<>>,
                  ret |-> before.tokens, fetched |-> before.fetch])
    /\ UNCHANGED <<CHAINS, decimalsCache, USDC_CACHE, decimalsCalls>>
    /\ UNCHANGED notTokenSearch

\* the fetch of a search is answered: an error or no pairs end the search with
\* no token, pairs start its loop
FetchSearchResponds ==
    /\ \E i \in 1 .. Len(searchCalls), response \in DexResponses :
         /\ searchCalls[i].pc = "fetch"
         /\ LET search == searchCalls[i]
                candidates == Candidates(PairTokens(response.pairs), search.query,
                                         REVERSE_CHAIN_ID_MAP(search.chainId)[1], {})
                loop == SearchLoop([search EXCEPT !.pairs = response.pairs,
                                                  !.candidates = candidates],
                                   decimalsCache, USDC_CACHE, CHAINS)
            IN  IF ~response.ok \/ response.pairs = <<>>
                THEN /\ searchCalls' = [searchCalls EXCEPT ![i].pc = "done"]
                     /\ UNCHANGED <<decimalsCache, USDC_CACHE, decimalsCalls>>
                ELSE /\ decimalsCache' = loop.cache
                     /\ USDC_CACHE' = loop.usdcCache
                     /\ searchCalls' = [searchCalls EXCEPT ![i] = loop.search]
                     /\ decimalsCalls' = decimalsCalls \o InternalCalls(loop, i, CHAINS)
    /\ UNCHANGED CHAINS
    /\ UNCHANGED notTokenSearch

TokenSearchNext ==
    \/ ChainsLoaded
    \/ CallGetTokenDecimals
    \/ FetchDecimalsResponds
    \/ CallSearchTokensOnDexScreener
    \/ FetchSearchResponds

(***************************************************************************)
(* The form (src/src/components/TransactionForm.tsx) with its chain and    *)
(* token selectors.  An event handler runs together with the re-render and *)
(* the effects its state changes cause; what it awaits is answered in a    *)
(* later step.  A name that matches the ensPattern of isENSName and has a  *)
(* known TLD is one element of a string, as an address is.                 *)
(***************************************************************************)
ENS_NAME == "vitalik.eth"
BASENAME == "jesse.base.eth"

\* String.prototype.trim
RECURSIVE Trim(_)
Trim(s) ==
    IF s # <<>> /\ s[1] = " " THEN Trim(Tail(s))
    ELSE IF s # <<>> /\ s[Len(s)] = " " THEN Trim(SubSeq(s, 1, Len(s) - 1))
    ELSE s

isENSName(name) == name \in {<<ENS_NAME>>, <<BASENAME>>}

isBasename(name) == name = <<BASENAME>>

ENSResult(address, ensName, isValid, isENS) ==
    [address |-> address, ensName |-> ensName, isValid |-> isValid, isENS |-> isENS]

\* what processAddressInput may resolve to (the avatar is left out): an address
\* is valid, with the name the reverse lookup finds or none; a name is valid
\* when it resolves on the chain; anything else is invalid
processAddressInput(input) ==
    LET trimmedInput == Trim(input)
    IN  IF isAddress(trimmedInput)
        THEN {ENSResult(trimmedInput, ensName, TRUE, FALSE) :
                 ensName \in {<<>>, <<ENS_NAME>>}}
        ELSE IF isENSName(trimmedInput)
        THEN {ENSResult(<<>>, trimmedInput, FALSE, TRUE),
              ENSResult(<<A_CHECK>>, trimmedInput, TRUE, TRUE)}
        ELSE {ENSResult(<<>>, <<>>, FALSE, FALSE)}

\* CHAINS[0] || null
FirstChain(chains) == IF chains = <<>> THEN None ELSE Some(chains[1])

\* the title of a generated link, word by word
TitleText(amount, symbol, network, recipient) ==
    IF amount # <<>> /\ amount # <<"0">> /\ GreaterThanZero(parseFloat(amount))
    THEN <<"Send", amount, symbol, "on", network, "to", recipient>>
    ELSE <<"Send", symbol, "on", network, "to", recipient>>

\* onSubmit up to its await: where the call stands after it
onSubmitBegin(chain, data) ==
    IF chain = None THEN "returned"
    ELSE IF data.toAddress = <<>> \/ Trim(data.toAddress) = <<>> THEN "rejected"
    ELSE "resolving"

\* onSubmit after a valid result of processAddressInput: the conversion of the
\* amount, the URL, the title.  submit holds the data of the form and the chain
\* and token of the render the handler belongs to.
onSubmitValid(submit, ensResult, shown) ==
    LET chain == submit.selectedChain[1]
        data == submit.data
        resolvedAddress == IF ensResult.address # <<>> THEN ensResult.address
                           ELSE data.toAddress
        resolved == IF ensResult.isENS /\ ensResult.address # <<>>
                    THEN Some(ensResult) ELSE shown.resolvedEnsResult
        decimals == IF submit.selectedToken # None
                    THEN submit.selectedToken[1].decimals
                    ELSE chain.nativeCurrency.decimals
        convertedValue == IF data.value # <<>> /\ data.value # <<"0">>
                          THEN parseUnits(data.value, decimals) ELSE data.value
        url == formDataToEIP681URL_srcUtils(
                   TransactionFormData(
                       Some(Num(data.chainId)), resolvedAddress, Some(convertedValue),
                       IF submit.selectedToken # None
                       THEN Some(submit.selectedToken[1].address) ELSE None,
                       None, None))
        symbol == IF submit.selectedToken # None THEN submit.selectedToken[1].symbol
                  ELSE chain.nativeCurrency.symbol
        recipient == IF ensResult.ensName # <<>> THEN ensResult.ensName
                     ELSE data.toAddress
    IN  IF url.thrown
        THEN [generatedURL |-> shown.generatedURL,
              userFriendlyTitle |-> shown.userFriendlyTitle,
              resolvedEnsResult |-> resolved, pc |-> "failed"]
        ELSE [generatedURL |-> url.val,
              userFriendlyTitle |-> TitleText(Trim(data.value), symbol, chain.name,
                                              recipient),
              resolvedEnsResult |-> resolved, pc |-> "generated"]

Rejected(shown) ==
    [generatedURL |-> shown.generatedURL, userFriendlyTitle |-> shown.userFriendlyTitle,
     resolvedEnsResult |-> shown.resolvedEnsResult, pc |-> "rejected"]

\* mutant of onSubmitResolved: the result is stored before it is looked at
onSubmitResolved_storesFirst(submit, ensResult, shown) ==
    IF ~ensResult.isValid
    THEN Rejected([shown EXCEPT !.resolvedEnsResult = Some(ensResult)])
    ELSE onSubmitValid(submit, ensResult, shown)

\* onSubmit from the result of processAddressInput on: where the call ends and
\* what the form shows after it
onSubmitResolved(submit, ensResult, shown) ==
    IF ~ensResult.isValid THEN Rejected(shown)
    ELSE onSubmitValid(submit, ensResult, shown)

\* the wait of debounce(..., 500), in milliseconds
DEBOUNCE_MS == 500

\* mutant of Debounced: the function is called without the wait
Debounced_noWait(pending, searchQuery, currentChainId, time) ==
    Some([due |-> time, searchQuery |-> searchQuery,
          currentChainId |-> currentChainId, armedAt |-> time,
          cleared |-> pending # None])

\* debounce: a call clears the pending timeout, if there is one, and sets a
\* timeout for the new arguments
Debounced(pending, searchQuery, currentChainId, time) ==
    Some([due |-> time + DEBOUNCE_MS, searchQuery |-> searchQuery,
          currentChainId |-> currentChainId, armedAt |-> time,
          cleared |-> pending # None])

\* what a search of the selector may resolve to: no token, or tokens of the
\* chain it was made for (searchTokensOnDexScreener gives every token it
\* returns the chain id it was called with), or an error
SelectorSearchResults(chainId) ==
    {<<>>, <<Token(chainId, TOKEN_AB, USD_COIN, USDC, 6)>>}

MaxSubmits == 2
MaxTime == 1500

AddressFieldInputs == {<<>>, <<" ">>, <<"x">>, <<A_CHECK>>, <<" ", A_LOWER>>, <<ENS_NAME>>}
AmountFieldInputs == {<<>>, <<"0">>}
SelectorQueryInputs == {<<>>, <<"u">>, <<"u", "s">>, USD}

ChainIdOf(chain) == IF chain = None THEN None ELSE Some(chain[1].chainId)

FormInit ==
    /\ mounted = FALSE
    /\ selectedChain = None
    /\ selectedToken = None
    /\ toAddressField = <<>>
    /\ valueField = <<>>
    /\ generatedURL = <<>>
    /\ userFriendlyTitle = <<>>
    /\ resolvedEnsResult = None
    /\ submits = <<>>

SelectorInit ==
    /\ queryState = <<>>
    /\ tokensState = <<>>
    /\ isSearching = FALSE
    /\ hasSearched = FALSE
    /\ timeout = None
    /\ selectorSearches = <<>>
    /\ now = 0

\* the effects of TokenSelector when its chainId prop has changed: the
\* debounced search is called with the query of that render (if there is a
\* chain), then results and query are cleared, and the render that follows
\* calls the debounced search again if the query was not empty
SelectorChainEffects(chain) ==
    /\ tokensState' = <<>>
    /\ queryState' = <<>>
    /\ hasSearched' = FALSE
    /\ timeout' = IF chain = None THEN timeout
                  ELSE LET first == Debounced(timeout, queryState, chain[1].chainId, now)
                       IN  IF queryState = <<>> THEN first
                           ELSE Debounced(first, <<>>, chain[1].chainId, now)
    /\ UNCHANGED <<isSearching, selectorSearches, now>>

\* the first render and its effects: useState(CHAINS[0] || null), and the
\* debounced search of the selector if there is a chain
Mount ==
    /\ ~mounted
    /\ mounted' = TRUE
    /\ selectedChain' = FirstChain(CHAINS)
    /\ timeout' = IF CHAINS = <<>> THEN None
                  ELSE Debounced(timeout, queryState, CHAINS[1].chainId, now)
    /\ UNCHANGED <<selectedToken, toAddressField, valueField, generatedURL, userFriendlyTitle,
                   resolvedEnsResult, submits>>
    /\ UNCHANGED <<queryState, tokensState, isSearching, hasSearched, selectorSearches, now>>
    /\ UNCHANGED notForm

\* ChainSelector: onChainChange={setSelectedChain}, with the effects of the
\* form (the token selection is reset) and of the token selector
SelectChain ==
    /\ mounted
    /\ \E i \in 1 .. Len(CHAINS) :
         /\ Some(CHAINS[i]) # selectedChain
         /\ selectedChain' = Some(CHAINS[i])
         /\ SelectorChainEffects(Some(CHAINS[i]))
    /\ selectedToken' = None
    /\ UNCHANGED <<mounted, toAddressField, valueField, generatedURL, userFriendlyTitle,
                   resolvedEnsResult, submits>>
    /\ UNCHANGED notForm

TypeAddress ==
    /\ mounted
    /\ \E a \in AddressFieldInputs : a # toAddressField /\ toAddressField' = a
    /\ UNCHANGED <<mounted, selectedChain, selectedToken, valueField, generatedURL,
                   userFriendlyTitle, resolvedEnsResult, submits>>
    /\ UNCHANGED selectorVars
    /\ UNCHANGED notForm

TypeAmount ==
    /\ mounted
    /\ \E v \in AmountFieldInputs : v # valueField /\ valueField' = v
    /\ UNCHANGED <<mounted, selectedChain, selectedToken, toAddressField, generatedURL,
                   userFriendlyTitle, resolvedEnsResult, submits>>
    /\ UNCHANGED selectorVars
    /\ UNCHANGED notForm

\* handleSubmit(onSubmit): onSubmit with the data of the form, up to its await
Submit ==
    /\ mounted
    /\ Len(submits) < MaxSubmits
    /\ LET data == [toAddress |-> toAddressField, value |-> valueField,
                    chainId |-> IF selectedChain = None THEN 1
                                ELSE selectedChain[1].chainId]
       IN  submits' = Append(submits,
               [data |-> data, selectedChain |-> selectedChain,
                selectedToken |-> selectedToken,
                pc |-> onSubmitBegin(selectedChain, data), ensResult |-> None])
    /\ UNCHANGED <<mounted, selectedChain, selectedToken, toAddressField, valueField,
                   generatedURL, userFriendlyTitle, resolvedEnsResult>>
    /\ UNCHANGED selectorVars
    /\ UNCHANGED notForm

\* processAddressInput resolves and onSubmit runs to its end
SubmitResolves ==
    /\ \E i \in 1 .. Len(submits) :
         /\ submits[i].pc = "resolving"
         /\ \E ensResult \in processAddressInput(submits[i].data.toAddress) :
              LET end == onSubmitResolved(submits[i], ensResult,
                             [generatedURL |-> generatedURL,
                              userFriendlyTitle |-> userFriendlyTitle,
                              resolvedEnsResult |-> resolvedEnsResult])
              IN  /\ submits' = [submits EXCEPT ![i].pc = end.pc,
                                                ![i].ensResult = Some(ensResult)]
                  /\ generatedURL' = end.generatedURL
                  /\ userFriendlyTitle' = end.userFriendlyTitle
                  /\ resolvedEnsResult' = end.resolvedEnsResult
    /\ UNCHANGED <<mounted, selectedChain, selectedToken, toAddressField, valueField>>
    /\ UNCHANGED selectorVars
    /\ UNCHANGED notForm

\* resetForm, with the effects of a changed chain
ResetForm ==
    /\ mounted
    /\ toAddressField' = <<>>
    /\ valueField' = <<>>
    /\ selectedChain' = FirstChain(CHAINS)
    /\ selectedToken' = None
    /\ generatedURL' = <<>>
    /\ userFriendlyTitle' = <<>>
    /\ resolvedEnsResult' = None
    /\ IF FirstChain(CHAINS) # selectedChain
       THEN SelectorChainEffects(FirstChain(CHAINS))
       ELSE UNCHANGED selectorVars
    /\ UNCHANGED <<mounted, submits>>
    /\ UNCHANGED notForm

\* Combobox.Input onChange: setQuery, and the effect calls the debounced search
TypeQuery ==
    /\ mounted /\ selectedChain # None
    /\ \E q \in SelectorQueryInputs :
         /\ q # queryState
         /\ queryState' = q
         /\ timeout' = Debounced(timeout, q, selectedChain[1].chainId, now)
    /\ UNCHANGED <<tokensState, isSearching, hasSearched, selectorSearches, now>>
    /\ UNCHANGED formVars
    /\ UNCHANGED notForm

\* the timeout of the debounce runs, at its time or later: the function given
\* to debounce, up to its await
TimeoutRuns ==
    /\ timeout # None
    /\ now >= timeout[1].due
    /\ timeout' = None
    /\ LET searchQuery == timeout[1].searchQuery
           currentChainId == timeout[1].currentChainId
       IN  IF searchQuery = <<>> \/ Len(searchQuery) < 2
           THEN /\ tokensState' = <<>>
                /\ isSearching' = FALSE
                /\ hasSearched' = FALSE
                /\ UNCHANGED selectorSearches
           ELSE /\ isSearching' = TRUE
                /\ hasSearched' = TRUE
                /\ selectorSearches' = Append(selectorSearches,
                       [query |-> searchQuery, chainId |-> currentChainId,
                        at |-> now, armedAt |-> timeout[1].armedAt,
                        cleared |-> timeout[1].cleared,
                        queryThen |-> queryState, chainThen |-> ChainIdOf(selectedChain),
                        pc |-> "searching"])
                /\ UNCHANGED tokensState
    /\ UNCHANGED <<queryState, now>>
    /\ UNCHANGED formVars
    /\ UNCHANGED notForm

\* searchTokensOnDexScreener resolves, or rejects: setTokens, setIsSearching
SelectorSearchReturns ==
    /\ \E i \in 1 .. Len(selectorSearches) :
         /\ selectorSearches[i].pc = "searching"
         /\ selectorSearches' = [selectorSearches EXCEPT ![i].pc = "done"]
         /\ \E results \in SelectorSearchResults(selectorSearches[i].chainId) :
              tokensState' = results
    /\ isSearching' = FALSE
    /\ UNCHANGED <<queryState, hasSearched, timeout, now>>
    /\ UNCHANGED formVars
    /\ UNCHANGED notForm

\* Combobox onChange={onTokenChange}: a token of the list, or the native option
SelectToken ==
    /\ mounted /\ selectedChain # None
    /\ \E t \in {None} \cup {Some(tokensState[k]) : k \in 1 .. Len(tokensState)} :
         /\ t # selectedToken
         /\ selectedToken' = t
    /\ UNCHANGED <<mounted, selectedChain, toAddressField, valueField, generatedURL,
                   userFriendlyTitle, resolvedEnsResult, submits>>
    /\ UNCHANGED selectorVars
    /\ UNCHANGED notForm

\* 250 ms pass
Tick ==
    /\ now < MaxTime
    /\ now' = now + 250
    /\ UNCHANGED <<queryState, tokensState, isSearching, hasSearched, timeout, selectorSearches>>
    /\ UNCHANGED formVars
    /\ UNCHANGED notForm

(***************************************************************************)
(* The address input (src/src/components/AddressInput.tsx): the resolution *)
(* of the typed value, 500 ms after its last change.  The chain cache of   *)
(* ens.ts is taken as loaded.                                              *)
(***************************************************************************)
POLYGON == 137
ADDRESS_DEBOUNCE_MS == 500

\* getENSRegistry(chainId) is not null
getENSRegistry(chainId) == chainId \in {1, BASE}

chainSupportsNaming(chainId) == chainId = BASE \/ getENSRegistry(chainId)

isNameSupportedOnChain(name, chainId) ==
    IF isBasename(name) THEN chainId = BASE
    ELSE IF isENSName(name) THEN getENSRegistry(chainId)
    ELSE FALSE

\* input.includes('.')
IncludesDot(input) == \E i \in 1 .. Len(input) : input[i] \in {ENS_NAME, BASENAME}

\* resolveAddress up to its await: the result it sets at once, or that it waits
\* for processAddressInput
resolveAddressBegin(input, chainId) ==
    IF Trim(input) = <<>> THEN [pc |-> "done", result |-> None]
    ELSE IF ~chainSupportsNaming(chainId) THEN [pc |-> "done", result |-> None]
    ELSE IF IncludesDot(input) /\ ~isNameSupportedOnChain(input, chainId)
    THEN [pc |-> "done", result |-> Some(ENSResult(<<>>, input, FALSE, TRUE))]
    ELSE [pc |-> "resolving", result |-> None]

\* what the awaited processAddressInput may end with: a result, or an error
\* (caught: the result is set to null)
ResolutionOutcomes(input) == {None} \cup {Some(r) : r \in processAddressInput(input)}

\* setTimeout of the effect
DebounceTimer(value, chainId, time) ==
    Some([value |-> value, chainId |-> chainId, due |-> time + ADDRESS_DEBOUNCE_MS])

MaxResolutions == 2

AddressInputValues == {<<>>, <<"x">>, <<A_CHECK>>, <<ENS_NAME>>, <<BASENAME>>}
AddressInputChains == {1, POLYGON}

\* the component after its first render, with value '' and the default
\* chainId = 1: the effect has set its timer
AddressInputInit ==
    /\ addressValue = <<>>
    /\ addressChainId = 1
    /\ addressResult = None
    /\ isResolving = FALSE
    /\ debounceTimer = DebounceTimer(<<>>, 1, 0)
    /\ resolutions = <<>>

\* the value prop changes: the cleanup of the effect clears the timer and the
\* effect sets a new one
AddressValueChanges ==
    /\ \E v \in AddressInputValues :
         /\ v # addressValue
         /\ addressValue' = v
         /\ debounceTimer' = DebounceTimer(v, addressChainId, now)
    /\ UNCHANGED <<addressChainId, addressResult, isResolving, resolutions>>
    /\ UNCHANGED notAddressInput

\* the chainId prop changes: resolveAddress is a new function, so the effect
\* runs again
AddressChainChanges ==
    /\ \E c \in AddressInputChains :
         /\ c # addressChainId
         /\ addressChainId' = c
         /\ debounceTimer' = DebounceTimer(addressValue, c, now)
    /\ UNCHANGED <<addressValue, addressResult, isResolving, resolutions>>
    /\ UNCHANGED notAddressInput

\* the timer of the effect runs, at its time or later: resolveAddress of the
\* render that set the timer, up to its await
DebounceTimerRuns ==
    /\ debounceTimer # None
    /\ now >= debounceTimer[1].due
    /\ Len(resolutions) < MaxResolutions
    /\ debounceTimer' = None
    /\ LET value == debounceTimer[1].value
           begin == resolveAddressBegin(value, debounceTimer[1].chainId)
       IN  IF value = <<>>
           THEN /\ addressResult' = None
                /\ UNCHANGED <<isResolving, resolutions>>
           ELSE IF begin.pc = "done"
           THEN /\ addressResult' = begin.result
                /\ UNCHANGED <<isResolving, resolutions>>
           ELSE /\ isResolving' = TRUE
                /\ resolutions' = Append(resolutions,
                       [input |-> value, chainId |-> debounceTimer[1].chainId,
                        pc |-> "resolving", result |-> None])
                /\ UNCHANGED addressResult
    /\ UNCHANGED <<addressValue, addressChainId>>
    /\ UNCHANGED notAddressInput

\* processAddressInput resolves or rejects, and resolveAddress runs to its end
ResolutionCompletes ==
    /\ \E i \in 1 .. Len(resolutions) :
         /\ resolutions[i].pc = "resolving"
         /\ \E outcome \in ResolutionOutcomes(resolutions[i].input) :
              /\ addressResult' = outcome
              /\ resolutions' = [resolutions EXCEPT ![i].pc = "done",
                                                    ![i].result = outcome]
    /\ isResolving' = FALSE
    /\ UNCHANGED <<addressValue, addressChainId, debounceTimer>>
    /\ UNCHANGED notAddressInput

AddressInputNext ==
    \/ AddressValueChanges
    \/ AddressChainChanges
    \/ DebounceTimerRuns
    \/ ResolutionCompletes
    \/ Tick

(***************************************************************************)
(* The resolver of Basenames (src/unnamed/part_001): its cache and its     *)
(* rate limiter.  A call runs to its first await in one step; the answer   *)
(* of the RPC and the rest of the call are a later step.                   *)
(***************************************************************************)
MAX_REQUESTS_PER_MINUTE == 10
RATE_WINDOW_MS == 60000
CACHE_DURATION == 300000

ResolverCallInputs ==
    {[fn |-> "resolveBasename", arg |-> BASENAME],
     [fn |-> "reverseResolveBasename", arg |-> A_CHECK]}

KeyPrefix(fn) == IF fn = "resolveBasename" THEN "basename-" ELSE "reverse-basename-"

\* `basename-${basename}`, `reverse-basename-${address}`
RateKey(fn, arg) == <<KeyPrefix(fn), arg>>

\* `basename-${basename.toLowerCase()}`, `reverse-basename-${address.toLowerCase()}`
ResolverCacheKey(fn, arg) ==
    <<KeyPrefix(fn), IF arg \in AddressAtoms THEN toLowerCase(arg) ELSE arg>>

RateKeys == {RateKey(in.fn, in.arg) : in \in ResolverCallInputs}
ResolverCacheKeys == {ResolverCacheKey(in.fn, in.arg) : in \in ResolverCallInputs}

\* { address: null, avatar: null } and { ensName: null, avatar: null }
NullResult(fn) ==
    IF fn = "resolveBasename" THEN [address |-> None, avatar |-> None]
    ELSE [ensName |-> None, avatar |-> None]

\* what a call stores and returns after its RPC: the answer or, when nothing
\* is registered or the RPC fails, the null result
RpcResults(fn) ==
    {NullResult(fn),
     IF fn = "resolveBasename" THEN [address |-> <<A_CHECK>>, avatar |-> None]
     ELSE [ensName |-> <<BASENAME>>, avatar |-> None]}

\* mutant of canMakeRequest: the limit is compared with > instead of >=
canMakeRequest_oneMore(timestamps, key, time) ==
    LET recentTimestamps == SelectSeq(timestamps[key],
                                      LAMBDA ts : time - ts < RATE_WINDOW_MS)
    IN  IF Len(recentTimestamps) > MAX_REQUESTS_PER_MINUTE
        THEN [ok |-> FALSE, requestTimestamps |-> timestamps]
        ELSE [ok |-> TRUE,
              requestTimestamps |->
                  [timestamps EXCEPT ![key] = Append(recentTimestamps, time)]]

\* canMakeRequest: its result and requestTimestamps after it
canMakeRequest(timestamps, key, time) ==
    LET recentTimestamps == SelectSeq(timestamps[key],
                                      LAMBDA ts : time - ts < RATE_WINDOW_MS)
    IN  IF Len(recentTimestamps) >= MAX_REQUESTS_PER_MINUTE
        THEN [ok |-> FALSE, requestTimestamps |-> timestamps]
        ELSE [ok |-> TRUE,
              requestTimestamps |->
                  [timestamps EXCEPT ![key] = Append(recentTimestamps, time)]]

\* getCachedResult: the cached result, if there is one not older than
\* CACHE_DURATION
getCachedResult(cache, key, time) ==
    IF cache[key] # None /\ time - cache[key][1].timestamp < CACHE_DURATION
    THEN Some(cache[key][1].result) ELSE None

\* setCachedResult
setCachedResult(cache, key, result, time) ==
    [cache EXCEPT ![key] = Some([result |-> result, timestamp |-> time])]

\* resolveBasename and reverseResolveBasename up to the first await
ResolveBegin(cache, timestamps, fn, arg, time) ==
    LET cached == getCachedResult(cache, ResolverCacheKey(fn, arg), time)
        limit == canMakeRequest(timestamps, RateKey(fn, arg), time)
    IN  IF cached # None
        THEN [pc |-> "cached", ret |-> cached, requestTimestamps |-> timestamps]
        ELSE IF ~limit.ok
        THEN [pc |-> "denied", ret |-> Some(NullResult(fn)),
              requestTimestamps |-> limit.requestTimestamps]
        ELSE [pc |-> "rpc", ret |-> None,
              requestTimestamps |-> limit.requestTimestamps]

MaxRpcs == 11
MaxDateNow == 30000

RECURSIVE SumOver(_, _)
SumOver(f, keys) ==
    IF keys = {} THEN 0
    ELSE LET k == CHOOSE x \in keys : TRUE
         IN  Len(f[k]) + SumOver(f, keys \ {k})

ResolverInit ==
    /\ dateNow = 0
    /\ requestTimestamps = [k \in RateKeys |-> <<>>]
    /\ resolverCache = [k \in ResolverCacheKeys |-> None]
    /\ rpcLog = [k \in RateKeys |-> <<>>]
    /\ pendingRpcs = [k \in RateKeys |-> 0]
    /\ lastCall = None

\* a call of resolveBasename or reverseResolveBasename
CallResolver ==
    /\ SumOver(rpcLog, RateKeys) < MaxRpcs
    /\ \E in \in ResolverCallInputs :
         LET key == RateKey(in.fn, in.arg)
             begin == ResolveBegin(resolverCache, requestTimestamps, in.fn, in.arg,
                                   dateNow)
         IN  /\ requestTimestamps' = begin.requestTimestamps
             /\ lastCall' = Some([fn |-> in.fn, arg |-> in.arg, pc |-> begin.pc,
                                  ret |-> begin.ret, at |-> dateNow])
             /\ IF begin.pc = "rpc"
                THEN /\ rpcLog' = [rpcLog EXCEPT ![key] = Append(@, dateNow)]
                     /\ pendingRpcs' = [pendingRpcs EXCEPT ![key] = @ + 1]
                ELSE UNCHANGED <<rpcLog, pendingRpcs>>
    /\ UNCHANGED <<dateNow, resolverCache>>
    /\ UNCHANGED notResolver

\* the RPC of a call is answered or fails, and the call stores its result
RpcCompletes ==
    /\ \E in \in ResolverCallInputs :
         /\ pendingRpcs[RateKey(in.fn, in.arg)] > 0
         /\ pendingRpcs' = [pendingRpcs EXCEPT ![RateKey(in.fn, in.arg)] = @ - 1]
         /\ \E result \in RpcResults(in.fn) :
              resolverCache' = setCachedResult(resolverCache,
                                   ResolverCacheKey(in.fn, in.arg), result, dateNow)
    /\ lastCall' = None
    /\ UNCHANGED <<dateNow, requestTimestamps, rpcLog>>
    /\ UNCHANGED notResolver

\* 30 seconds pass
TimePasses ==
    /\ dateNow < MaxDateNow
    /\ dateNow' = dateNow + 30000
    /\ lastCall' = None
    /\ UNCHANGED <<requestTimestamps, resolverCache, rpcLog, pendingRpcs>>
    /\ UNCHANGED notResolver

ResolverNext ==
    \/ CallResolver
    \/ RpcCompletes
    \/ TimePasses

FormNext ==
    \/ ChainsLoaded
    \/ Mount
    \/ SelectChain
    \/ TypeAddress
    \/ TypeAmount
    \/ Submit
    \/ SubmitResolves
    \/ ResetForm

SelectorNext ==
    \/ ChainsLoaded
    \/ Mount
    \/ SelectChain
    \/ TypeQuery
    \/ TimeoutRuns
    \/ SelectorSearchReturns
    \/ SelectToken
    \/ Tick

(***************************************************************************)
(* The calls.  log is the sequence of the calls made so far, each with its *)
(* argument and what it returned; a later call of a session decodes the    *)
(* URL, or encodes the record, that the call before it returned.           *)
(***************************************************************************)
Call(fn, arg, ret) == [fn |-> fn, arg |-> arg, ret |-> ret]

Last == log[Len(log)]

Encoders == {"generateEIP681URL", "generateTokenTransferURL", "generateETHTransferURL",
             "formDataToEIP681URL"}
Encoders_srcUtils == {"generateEIP681URL_srcUtils", "generateTokenTransferURL_srcUtils",
                      "generateETHTransferURL_srcUtils", "formDataToEIP681URL_srcUtils"}

\* the record parseEIP681URL returned, read as the EIP681Params generateEIP681URL
\* destructures
AsParams(d) ==
    EIP681Params(d.chainId, d.address, d.functionName, None, None, None, None,
                 d.parameters)

AsParams_srcUtils(d) ==
    EIP681Params(d.chainId, d.address, d.functionName, d.value, d.gas, d.gasLimit,
                 d.gasPrice, d.parameters)

CodecInit == log = <<>>

CallGenerateEIP681URL ==
    /\ log = <<>>
    /\ \E p \in IntentInputs :
         log' = <<Call("generateEIP681URL", p, generateEIP681URL(p))>>
    /\ UNCHANGED notCodec

CallGenerateTokenTransferURL ==
    /\ log = <<>>
    /\ \E a \in TokenTransferInputs :
         log' = <<Call("generateTokenTransferURL", a,
                       generateTokenTransferURL(a.tokenAddress, a.toAddress,
                                                a.amount, a.chainId))>>
    /\ UNCHANGED notCodec

CallGenerateETHTransferURL ==
    /\ log = <<>>
    /\ \E a \in ETHTransferInputs :
         log' = <<Call("generateETHTransferURL", a,
                       generateETHTransferURL(a.toAddress, a.value, a.chainId,
                                              a.gasLimit, a.gasPrice))>>
    /\ UNCHANGED notCodec

CallFormDataToEIP681URL ==
    /\ log = <<>>
    /\ \E f \in FormDataInputs :
         log' = <<Call("formDataToEIP681URL", f, formDataToEIP681URL(f))>>
    /\ UNCHANGED notCodec

CallParseEIP681URL ==
    /\ log = <<>>
    /\ \E u \in URLInputs :
         log' = <<Call("parseEIP681URL", u, parseEIP681URL(u))>>
    /\ UNCHANGED notCodec

CallValidateEIP681URL ==
    /\ log = <<>>
    /\ \E u \in URLInputs :
         log' = <<Call("validateEIP681URL", u, validateEIP681URL(u))>>
    /\ UNCHANGED notCodec

\* decode the URL an encoder has just returned
DecodeReturned ==
    /\ 0 < Len(log) /\ Len(log) < MaxCalls
    /\ Last.fn \in Encoders
    /\ ~Last.ret.thrown
    /\ log' = Append(log, Call("parseEIP681URL", Last.ret.val,
                               parseEIP681URL(Last.ret.val)))
    /\ UNCHANGED notCodec

\* encode the record the decoder has just returned
EncodeReturned ==
    /\ 0 < Len(log) /\ Len(log) < MaxCalls
    /\ Last.fn = "parseEIP681URL"
    /\ ~Last.ret.null
    /\ log' = Append(log, Call("generateEIP681URL", AsParams(Last.ret),
                               generateEIP681URL(AsParams(Last.ret))))
    /\ UNCHANGED notCodec

CallGenerateEIP681URL_srcUtils ==
    /\ log = <<>>
    /\ \E p \in IntentInputs :
         log' = <<Call("generateEIP681URL_srcUtils", p, generateEIP681URL_srcUtils(p))>>
    /\ UNCHANGED notCodec

CallGenerateTokenTransferURL_srcUtils ==
    /\ log = <<>>
    /\ \E a \in TokenTransferInputs :
         log' = <<Call("generateTokenTransferURL_srcUtils", a,
                       generateTokenTransferURL_srcUtils(a.tokenAddress, a.toAddress,
                                                         a.amount, a.chainId))>>
    /\ UNCHANGED notCodec

CallGenerateETHTransferURL_srcUtils ==
    /\ log = <<>>
    /\ \E a \in ETHTransferInputs :
         log' = <<Call("generateETHTransferURL_srcUtils", a,
                       generateETHTransferURL_srcUtils(a.toAddress, a.value, a.chainId,
                                                       a.gasLimit, a.gasPrice))>>
    /\ UNCHANGED notCodec

CallFormDataToEIP681URL_srcUtils ==
    /\ log = <<>>
    /\ \E f \in FormDataInputs :
         log' = <<Call("formDataToEIP681URL_srcUtils", f, formDataToEIP681URL_srcUtils(f))>>
    /\ UNCHANGED notCodec

CallParseEIP681URL_srcUtils ==
    /\ log = <<>>
    /\ \E u \in URLInputs :
         log' = <<Call("parseEIP681URL_srcUtils", u, parseEIP681URL_srcUtils(u))>>
    /\ UNCHANGED notCodec

DecodeReturned_srcUtils ==
    /\ 0 < Len(log) /\ Len(log) < MaxCalls
    /\ Last.fn \in Encoders_srcUtils
    /\ ~Last.ret.thrown
    /\ log' = Append(log, Call("parseEIP681URL_srcUtils", Last.ret.val,
                               parseEIP681URL_srcUtils(Last.ret.val)))
    /\ UNCHANGED notCodec

EncodeReturned_srcUtils ==
    /\ 0 < Len(log) /\ Len(log) < MaxCalls
    /\ Last.fn = "parseEIP681URL_srcUtils"
    /\ ~Last.ret.null
    /\ log' = Append(log, Call("generateEIP681URL_srcUtils", AsParams_srcUtils(Last.ret),
                               generateEIP681URL_srcUtils(AsParams_srcUtils(Last.ret))))
    /\ UNCHANGED notCodec

\* the largest number of decimals a conversion is asked for
MaxDecimals == 3

\* decimal amounts with no, one and two digits after the point, a negative one,
\* and the empty string
AmountInputs == {<<"0">>, <<"1">>, <<"1", "5">>, <<"1", "5", "0", "0">>,
                 <<"0", ".", "5">>, <<"1", ".", "5">>, <<"0", ".", "2", "5">>,
                 <<"2", ".", "7", "5">>, <<"1", ".", "2", "5">>,
                 <<"-", "1", ".", "5">>, <<>>}
DecimalsInputs == 0 .. MaxDecimals

CallFormatTokenAmount ==
    /\ log = <<>>
    /\ \E a \in AmountInputs, d \in DecimalsInputs :
         log' = <<Call("formatTokenAmount", [amount |-> a, decimals |-> d],
                       formatTokenAmount(a, d))>>
    /\ UNCHANGED notCodec

CallParseUnits ==
    /\ log = <<>>
    /\ \E a \in AmountInputs, d \in DecimalsInputs :
         log' = <<Call("parseUnits", [amount |-> a, decimals |-> d],
                       Return(parseUnits(a, d)))>>
    /\ UNCHANGED notCodec

CodecNext ==
    \/ CallGenerateEIP681URL
    \/ CallGenerateTokenTransferURL
    \/ CallGenerateETHTransferURL
    \/ CallFormDataToEIP681URL
    \/ CallParseEIP681URL
    \/ CallValidateEIP681URL
    \/ DecodeReturned
    \/ EncodeReturned
    \/ CallGenerateEIP681URL_srcUtils
    \/ CallGenerateTokenTransferURL_srcUtils
    \/ CallGenerateETHTransferURL_srcUtils
    \/ CallFormDataToEIP681URL_srcUtils
    \/ CallParseEIP681URL_srcUtils
    \/ DecodeReturned_srcUtils
    \/ EncodeReturned_srcUtils
    \/ CallFormatTokenAmount
    \/ CallParseUnits

\* the program after its modules are loaded
Init ==
    /\ CodecInit
    /\ TokenSearchInit
    /\ FormInit
    /\ SelectorInit
    /\ AddressInputInit
    /\ ResolverInit

CodecSpec == Init /\ [][CodecNext]_vars

TokenSearchSpec == Init /\ [][TokenSearchNext]_vars

FormSpec == Init /\ [][FormNext]_vars

SelectorSpec == Init /\ [][SelectorNext]_vars

AddressInputSpec == Init /\ [][AddressInputNext]_vars

ResolverSpec == Init /\ [][ResolverNext]_vars

(***************************************************************************)
(* The properties.                                                         *)
(***************************************************************************)
\* the calls of the session, by position
Calls == 1..Len(log)

Decoders == {"parseEIP681URL", "parseEIP681URL_srcUtils"}

\* property name of a record, undefined when the record has no such property
Field(d, name) == IF name \in DOMAIN d THEN d[name] ELSE None

\* the characters a query key of the URL grammar does not hold
ReservedInKey == {"&", "=", "?", "#", "+", "%", "/", "@", ":", " "}

\* a decoded record of the URL grammar ethereum:<address>[@<chain>][/<function>][?...]:
\* a valid address, a positive chain id, a non-empty function name, plain keys
WellFormed(d) ==
    /\ Len(d.address) = 1 /\ d.address[1] \in AddressAtoms
    /\ d.chainId = None \/ (~d.chainId[1].nan /\ d.chainId[1].n > 0)
    /\ d.functionName = None \/ d.functionName[1] # <<>>
    /\ d.parameters = None
       \/ \A i \in 1..Len(d.parameters[1]) :
            \A j \in 1..Len(d.parameters[1][i][1]) :
                d.parameters[1][i][1][j] \notin ReservedInKey

\* C1: idempotent decode: when a URL decodes to a record d, encoding d and decoding
\* the result gives d again, field for field (in either copy of the codec); stated
\* for the URLs that follow the URL grammar, chain segment 1 and value=0 included.
C1_IdempotentDecode ==
    \A i \in Calls :
        (i >= 3 /\ log[i].fn \in Decoders /\ log[i - 2].fn = log[i].fn
              /\ WellFormed(log[i - 2].ret))
            => log[i].ret = log[i - 2].ret

IsDecimalString(o) ==
    o = None \/ (Len(o[1]) > 0 /\ \A i \in 1..Len(o[1]) : o[1][i] \in DigitSet)

\* a syntactically valid intent with checksum-normalized addresses
ValidIntent(p) ==
    /\ p.address \in {<<A_CHECK>>, <<T_CHECK>>}
    /\ p.chainId = None \/ (~p.chainId[1].nan /\ p.chainId[1].n > 0)
    /\ p.functionName = None \/ p.functionName[1] # <<>>
    /\ IsDecimalString(p.value) /\ IsDecimalString(p.gas)
    /\ IsDecimalString(p.gasLimit) /\ IsDecimalString(p.gasPrice)
    /\ p.parameters = None
       \/ \A i \in 1..Len(p.parameters[1]) :
            LET e == p.parameters[1][i]
            IN  /\ e[1] = ADDRESS => e[2] \in {<<A_CHECK>>, <<T_CHECK>>}
                /\ \A j \in 1..Len(e[2]) : e[2][j] # LONE_SURROGATE

\* field `name` of the intent came back: as it was, or absent when the encoder
\* left it out of the URL
CameBack(p, d, name, omitted) ==
    Field(d, name) = IF omitted THEN None ELSE p[name]

\* C2: round trip: decoding the URL generated for a valid intent p reproduces every
\* field of p in the same field of the result, the fields the encoder omitted
\* coming back absent.
C2_RoundTrip ==
    \A i \in Calls :
        (i >= 2 /\ log[i].fn = "parseEIP681URL" /\ log[i - 1].fn = "generateEIP681URL"
              /\ ValidIntent(log[i - 1].arg))
            => LET q == log[i - 1].arg
                   d == log[i].ret
               IN  /\ ~d.null
                   /\ d.address = q.address
                   /\ CameBack(q, d, "chainId", q.chainId = None \/ q.chainId[1] = Num(MAINNET))
                   /\ CameBack(q, d, "functionName", q.functionName = None)
                   /\ CameBack(q, d, "value", q.value = None \/ q.value[1] = <<"0">>)
                   /\ CameBack(q, d, "gas", q.gas = None)
                   /\ CameBack(q, d, "gasLimit", q.gasLimit = None)
                   /\ CameBack(q, d, "gasPrice", q.gasPrice = None)
                   /\ CameBack(q, d, "parameters",
                               q.parameters = None \/ q.parameters[1] = EmptyObject)

\* a string of the form 0x + 40 hex digits
IsAddressSyntax(s) == Len(s) = 1 /\ s[1] \in AddressAtoms

IsPositiveInteger(x) == ~x.nan /\ x.n > 0

\* C3: validator agreement: validateEIP681URL(u) is true exactly when u decodes, the
\* decoded address is a syntactically valid address and the decoded chainId is
\* absent or a positive integer.
C3_ValidatorAgreement ==
    \A i \in Calls :
        log[i].fn = "validateEIP681URL"
            => LET d == parseEIP681URL(log[i].arg)
               IN  log[i].ret
                     = (/\ ~d.null
                        /\ IsAddressSyntax(d.address)
                        /\ (d.chainId = None \/ IsPositiveInteger(d.chainId[1])))

\* C3 witness: a URL with a chain segment was validated and accepted, and one with
\* a chain segment was rejected although its address is valid
C3_Witness ==
    /\ Len(log) = 1 /\ log[1].fn = "validateEIP681URL"
    /\ log[1].ret = TRUE
    /\ parseEIP681URL(log[1].arg).chainId = Some(Num(BASE))

\* C5: parseEIP681URL returns null exactly for the strings that do not begin with
\* the nine characters "ethereum:", and a record for every string that does.
C5_NullIffNoScheme ==
    \A i \in Calls :
        log[i].fn = "parseEIP681URL"
            => LET u == log[i].arg
               IN  log[i].ret.null
                     = ~(Len(u) >= 9 /\ \A k \in 1..9 : u[k] = ETHEREUM[k])

\* C5 witness: a bitcoin: URL was decoded to null
C5_Witness ==
    /\ Len(log) = 1 /\ log[1].fn = "parseEIP681URL"
    /\ log[1].arg = BITCOIN \o <<A_MIXED>>
    /\ log[1].ret.null

\* C6: totality: no call of generateEIP681URL, parseEIP681URL or validateEIP681URL
\* lets an exception escape; each returns a value (a string, a record or null, a
\* boolean).
C6_Totality ==
    \A i \in Calls :
        /\ log[i].fn = "generateEIP681URL" => ~log[i].ret.thrown
        /\ log[i].fn = "parseEIP681URL" => log[i].ret.null \in BOOLEAN
        /\ log[i].fn = "validateEIP681URL" => log[i].ret \in BOOLEAN

\* the checksum-cased form of a 40-hex-digit address, any other string as it is
Checksummed(a) == IF IsAddressSyntax(a) THEN <<checksumAddress(a[1])>> ELSE a

\* the same address in every casing
Casings(a) ==
    IF IsAddressSyntax(a)
    THEN {<<x>> : x \in {y \in AddressAtoms : toLowerCase(y) = toLowerCase(a[1])}}
    ELSE {a}

\* the encode entry point named fn applied to arg
Apply(fn, arg) ==
    CASE fn = "generateEIP681URL" -> generateEIP681URL(arg)
      [] fn = "generateTokenTransferURL" ->
            generateTokenTransferURL(arg.tokenAddress, arg.toAddress, arg.amount, arg.chainId)
      [] fn = "generateETHTransferURL" ->
            generateETHTransferURL(arg.toAddress, arg.value, arg.chainId, arg.gasLimit,
                                   arg.gasPrice)
      [] fn = "formDataToEIP681URL" -> formDataToEIP681URL(arg)
      [] fn = "generateEIP681URL_srcUtils" -> generateEIP681URL_srcUtils(arg)
      [] fn = "generateTokenTransferURL_srcUtils" ->
            generateTokenTransferURL_srcUtils(arg.tokenAddress, arg.toAddress, arg.amount,
                                              arg.chainId)
      [] fn = "generateETHTransferURL_srcUtils" ->
            generateETHTransferURL_srcUtils(arg.toAddress, arg.value, arg.chainId,
                                            arg.gasLimit, arg.gasPrice)
      [] fn = "formDataToEIP681URL_srcUtils" -> formDataToEIP681URL_srcUtils(arg)

\* the property of arg that becomes the address segment of the URL
TargetField(fn, arg) ==
    CASE fn \in {"generateEIP681URL", "generateEIP681URL_srcUtils"} -> "address"
      [] fn \in {"generateTokenTransferURL", "generateTokenTransferURL_srcUtils"} ->
            "tokenAddress"
      [] fn \in {"generateETHTransferURL", "generateETHTransferURL_srcUtils"} -> "toAddress"
      [] fn \in {"formDataToEIP681URL", "formDataToEIP681URL_srcUtils"} ->
            IF Truthy(arg.tokenAddress) THEN "tokenAddress" ELSE "toAddress"

\* the address that becomes the address segment, as a string
TargetAddress(fn, arg) ==
    IF fn \in {"formDataToEIP681URL", "formDataToEIP681URL_srcUtils"}
          /\ Truthy(arg.tokenAddress)
    THEN arg.tokenAddress[1]
    ELSE arg[TargetField(fn, arg)]

\* arg with its target address written in the casing a
Recased(fn, arg, a) ==
    IF fn \in {"formDataToEIP681URL", "formDataToEIP681URL_srcUtils"}
          /\ Truthy(arg.tokenAddress)
    THEN [arg EXCEPT !.tokenAddress = Some(a)]
    ELSE [arg EXCEPT ![TargetField(fn, arg)] = a]

\* C4: checksum invariance: every encode entry point (of either copy of the codec)
\* returns, for a valid address in any casing, the string it returns for every
\* other casing of that address, and its address segment is the checksum-cased form.
C4_ChecksumInvariance ==
    \A i \in Calls :
        (i = 1 /\ log[i].fn \in Encoders \cup Encoders_srcUtils
               /\ IsAddressSyntax(TargetAddress(log[i].fn, log[i].arg))
               /\ ~log[i].ret.thrown)
            => LET fn == log[i].fn
                   arg == log[i].arg
                   a == TargetAddress(fn, arg)
               IN  /\ startsWith(log[i].ret.val, ETHEREUM \o Checksummed(a))
                   /\ \A b \in Casings(a) : Apply(fn, Recased(fn, arg, b)) = log[i].ret

\* C4 restricted to the encode entry points of src/unnamed/part_002
C4_ChecksumInvariance_part002 ==
    \A i \in Calls :
        (i = 1 /\ log[i].fn \in Encoders
               /\ IsAddressSyntax(TargetAddress(log[i].fn, log[i].arg))
               /\ ~log[i].ret.thrown)
            => LET fn == log[i].fn
                   arg == log[i].arg
                   a == TargetAddress(fn, arg)
               IN  /\ startsWith(log[i].ret.val, ETHEREUM \o Checksummed(a))
                   /\ \A b \in Casings(a) : Apply(fn, Recased(fn, arg, b)) = log[i].ret

\* the calls of the two native-transfer encode paths of src/unnamed/part_002
IsNativeCall(c) ==
    \/ c.fn = "generateETHTransferURL"
    \/ c.fn = "formDataToEIP681URL" /\ ~Truthy(c.arg.tokenAddress)

\* the amount argument of a native-transfer call, as a string ('' when undefined)
NativeAmount(c) ==
    IF c.fn = "generateETHTransferURL" THEN c.arg.value ELSE OrEmpty(c.arg.value)

NoGas(c) == ~Truthy(c.arg.gasLimit) /\ ~Truthy(c.arg.gasPrice)

IsPositiveDecimal(v) ==
    /\ Len(v) > 0
    /\ \A i \in 1..Len(v) : v[i] \in DigitSet \cup {"."}
    /\ \E i \in 1..Len(v) : v[i] \in DigitSet \ {"0"}

\* what follows ethereum:<checksummed address> in the returned URL
AfterAddress(c) ==
    substring(c.ret.val, 9 + Len(Checksummed(TargetAddress(c.fn, c.arg))))

\* the URL starts with ethereum:<checksummed address>
HasChecksummedAddress(c) ==
    startsWith(c.ret.val, ETHEREUM \o Checksummed(TargetAddress(c.fn, c.arg)))

\* the amount times 10^18 in exponential notation, for the ether amounts of the model
InWeiExponential(v) ==
    CASE v = <<"1", ".", "5">> -> <<"1", ".", "5", "e", "1", "8">>
      [] v = <<"1", "5">> -> <<"1", ".", "5", "e", "1", "9">>
      [] v = <<"0", ".", "5">> -> <<"5", "e", "1", "7">>

\* C7 (as claimed): a native transfer with chainId 1 and a positive amount yields
\* ethereum:<checksummed address>@1?value=<amount>, and both native-transfer paths
\* emit @<chainId> for every present chainId.
C7_NativeChainAlways_claimed ==
    \A i \in Calls :
        (i = 1 /\ IsNativeCall(log[i]))
            => LET c == log[i]
               IN  /\ HasChecksummedAddress(c)
                   /\ c.arg.chainId # None
                        => startsWith(AfterAddress(c),
                                      <<"@">> \o NumberToString(c.arg.chainId[1]))
                   /\ (c.arg.chainId = Some(Num(MAINNET)) /\ NoGas(c)
                          /\ IsPositiveDecimal(NativeAmount(c)))
                        => AfterAddress(c)
                             = <<"@", "1", "?">> \o VALUE \o <<"=">> \o NativeAmount(c)

\* C7 (amended): both native-transfer paths emit @<chainId> directly after the
\* checksummed address for every chainId that is neither undefined, 0 nor NaN,
\* 1 included, and no @ otherwise; with chainId 1, a positive amount and no gas
\* fields formDataToEIP681URL yields ...@1?value=<amount> and generateETHTransferURL
\* yields ...@1?value=<amount * 10^18 in exponential notation>.
C7_NativeChainAlways ==
    \A i \in Calls :
        (i = 1 /\ IsNativeCall(log[i]))
            => LET c == log[i]
                   present == c.arg.chainId # None /\ ~c.arg.chainId[1].nan
                                /\ c.arg.chainId[1].n # 0
               IN  /\ HasChecksummedAddress(c)
                   /\ present
                        => startsWith(AfterAddress(c),
                                      <<"@">> \o NumberToString(c.arg.chainId[1]))
                   /\ ~present => ~includes(c.ret.val, "@")
                   /\ (c.arg.chainId = Some(Num(MAINNET)) /\ NoGas(c)
                          /\ IsPositiveDecimal(NativeAmount(c)))
                        => AfterAddress(c)
                             = <<"@", "1", "?">> \o VALUE \o <<"=">>
                               \o (IF c.fn = "formDataToEIP681URL"
                                   THEN NativeAmount(c)
                                   ELSE InWeiExponential(NativeAmount(c)))

\* C7 witness: the form data of a native transfer on chain 1 with a positive amount
\* was encoded
C7_Witness ==
    /\ Len(log) = 1 /\ log[1].fn = "formDataToEIP681URL"
    /\ log[1].arg.tokenAddress = None
    /\ log[1].arg.chainId = Some(Num(MAINNET))
    /\ log[1].arg.value = Some(<<"1", "5">>)
    /\ log[1].arg.gasLimit = None /\ log[1].arg.gasPrice = None
    /\ log[1].ret.val = ETHEREUM \o <<A_CHECK, "@", "1", "?">> \o VALUE \o <<"=", "1", "5">>

\* the calls that go through generateEIP681URL in src/unnamed/part_002
IsGenerateCall(c) ==
    \/ c.fn \in {"generateEIP681URL", "generateTokenTransferURL"}
    \/ c.fn = "formDataToEIP681URL" /\ Truthy(c.arg.tokenAddress)

\* the function name such a call encodes
FunctionNameOf(c) ==
    IF c.fn = "generateEIP681URL" THEN c.arg.functionName ELSE Some(TRANSFER)

FunctionSegment(c) ==
    IF Truthy(FunctionNameOf(c)) THEN <<"/">> \o FunctionNameOf(c)[1] ELSE <<>>

\* after the address comes @<chainId>, then the function segment, then the query or
\* the end
ChainThenFunction(c) ==
    LET seg == <<"@">> \o NumberToString(c.arg.chainId[1]) \o FunctionSegment(c)
        rest == AfterAddress(c)
    IN  /\ startsWith(rest, seg)
        /\ Len(rest) > Len(seg) => rest[Len(seg) + 1] = "?"

\* after the address comes the function segment at once, then the query or the end
FunctionAtOnce(c) ==
    LET seg == FunctionSegment(c)
        rest == AfterAddress(c)
    IN  /\ startsWith(rest, seg)
        /\ Len(rest) > Len(seg) => rest[Len(seg) + 1] = "?"

C9_TokenTransferMainnetSegment ==
    \A i \in Calls :
        (log[i].fn = "generateTokenTransferURL"
              /\ log[i].arg.chainId = Some(Num(MAINNET)))
            => startsWith(log[i].ret.val,
                          ETHEREUM \o Checksummed(log[i].arg.tokenAddress)
                          \o <<"@", "1", "/">> \o TRANSFER \o <<"?">> \o ADDRESS
                          \o <<"=">> \o Checksummed(log[i].arg.toAddress))

\* the key of a key=value piece
KeyOf(piece) ==
    LET e == indexOf(piece, "=", 1)
    IN  IF e = 0 THEN piece ELSE SubSeq(piece, 1, e - 1)

\* the keys of the query pairs of a URL, in the order they stand in it
QueryKeys(url) ==
    LET q == indexOf(url, "?", 1)
        pieces == split(substring(url, q), "&")
    IN  IF q = 0 THEN <<>> ELSE [i \in 1..Len(pieces) |-> KeyOf(pieces[i])]

\* the fixed fields of an intent that are present (a non-empty string, and for
\* value not '0'), in the order value, gas, gasLimit, gasPrice
FixedKeys(p) ==
    (IF Truthy(p.value) /\ p.value[1] # <<"0">> THEN <<VALUE>> ELSE <<>>)
    \o (IF Truthy(p.gas) THEN <<GAS>> ELSE <<>>)
    \o (IF Truthy(p.gasLimit) THEN <<GASLIMIT>> ELSE <<>>)
    \o (IF Truthy(p.gasPrice) THEN <<GASPRICE>> ELSE <<>>)

\* the parameters object of an intent, empty when undefined
ParametersOf(p) == IF p.parameters = None THEN EmptyObject ELSE p.parameters[1]

\* no key of the object holds a pair separator
SeparatorFreeKeys(obj) ==
    \A i \in 1..Len(obj) : ~includes(obj[i][1], "&") /\ ~includes(obj[i][1], "=")

\* the orders in which the entries of obj can have been inserted into an empty object
InsertionOrders(obj) ==
    LET n == Len(obj)
        perms == {f \in [1..n -> 1..n] : \A i, j \in 1..n : f[i] = f[j] => i = j}
    IN  {es \in {[i \in 1..n |-> obj[f[i]]] : f \in perms} :
            Object_fromEntries(es) = obj}

IsIndexEntry(e) == IsArrayIndex(e[1])
IsNamedEntry(e) == ~IsArrayIndex(e[1])

\* the keys of entries, ascending by their numeric value
RECURSIVE Ascending(_)
Ascending(entries) ==
    IF Len(entries) = 0 THEN <<>>
    ELSE LET m == CHOOSE i \in 1..Len(entries) :
                      \A j \in 1..Len(entries) :
                          DigitsValue(entries[i][1]) <= DigitsValue(entries[j][1])
         IN  <<entries[m][1]>>
             \o Ascending(SubSeq(entries, 1, m - 1) \o SubSeq(entries, m + 1, Len(entries)))

\* C10 (as claimed): the query pairs of a URL generateEIP681URL returns are the
\* present fields among value, gas, gasLimit, gasPrice in that order, followed by the
\* entries of parameters in their insertion order, each once.
C10_QueryOrder_claimed ==
    \A i \in Calls :
        (log[i].fn = "generateEIP681URL" /\ ~log[i].ret.thrown
              /\ SeparatorFreeKeys(ParametersOf(log[i].arg)))
            => \A es \in InsertionOrders(ParametersOf(log[i].arg)) :
                   QueryKeys(log[i].ret.val) = FixedKeys(log[i].arg) \o Object_keys(es)

\* C10 (amended): the query pairs of a URL generateEIP681URL returns are the present
\* fields among value, gas, gasLimit, gasPrice in that order, followed by the entries
\* of parameters in the enumeration order of the object: the integer-like keys in
\* ascending numeric order, then the other keys in their insertion order, each once.
C10_QueryOrder ==
    \A i \in Calls :
        (log[i].fn = "generateEIP681URL" /\ ~log[i].ret.thrown
              /\ SeparatorFreeKeys(ParametersOf(log[i].arg)))
            => \A es \in InsertionOrders(ParametersOf(log[i].arg)) :
                   QueryKeys(log[i].ret.val)
                     = FixedKeys(log[i].arg)
                       \o Ascending(SelectSeq(es, IsIndexEntry))
                       \o Object_keys(SelectSeq(es, IsNamedEntry))

\* C10 witness: a URL with the four fixed fields and two parameters was generated
C10_Witness ==
    /\ Len(log) = 1 /\ log[1].fn = "generateEIP681URL"
    /\ FixedKeys(log[1].arg) = <<VALUE, GAS, GASLIMIT, GASPRICE>>
    /\ Object_keys(ParametersOf(log[1].arg)) = <<UINT256, <<"k">>>>
    /\ QueryKeys(log[1].ret.val) = <<VALUE, GAS, GASLIMIT, GASPRICE, UINT256, <<"k">>>>

\* C10 witness of the enumeration order: parameters built by inserting b, 10 and 7
\* in some order came out as 7, 10 or with 7 before b
C10_Witness_indexKeys ==
    /\ Len(log) = 1 /\ log[1].fn = "generateEIP681URL"
    /\ Object_keys(ParametersOf(log[1].arg)) = <<(<<"7">>), <<"1", "0">>>>
    /\ QueryKeys(log[1].ret.val) = <<(<<"7">>), <<"1", "0">>>>

\* the set of the query keys of a URL
KeySet(url) == {QueryKeys(url)[i] : i \in 1..Len(QueryKeys(url))}

\* an amount argument that is '0' or ''
ZeroOrEmpty(v) == v = <<"0">> \/ v = <<>>

\* C11: on every encode entry point an amount of "0" or "" gives a URL without a
\* value key; generateTokenTransferURL with an amount of "0" or "" gives a URL
\* without a uint256 key that still carries the address parameter.
C11_ZeroAmountOmitted ==
    \A i \in Calls :
        LET c == log[i]
        IN  /\ (c.fn \in {"generateEIP681URL", "generateEIP681URL_srcUtils"}
                  /\ c.arg.value # None /\ ZeroOrEmpty(c.arg.value[1])
                  /\ ~HasKey(ParametersOf(c.arg), VALUE))
                 => ~c.ret.thrown /\ VALUE \notin KeySet(c.ret.val)
            /\ (c.fn \in {"generateETHTransferURL", "generateETHTransferURL_srcUtils"}
                  /\ ZeroOrEmpty(c.arg.value))
                 => VALUE \notin KeySet(c.ret.val)
            /\ (c.fn \in {"formDataToEIP681URL", "formDataToEIP681URL_srcUtils"}
                  /\ ~Truthy(c.arg.tokenAddress) /\ ZeroOrEmpty(OrEmpty(c.arg.value)))
                 => VALUE \notin KeySet(c.ret.val)
            /\ (c.fn \in {"generateTokenTransferURL", "generateTokenTransferURL_srcUtils"}
                  /\ ZeroOrEmpty(c.arg.amount))
                 => QueryKeys(c.ret.val) = <<ADDRESS>>

\* C11 witness: an intent with value "0" and a gas price was encoded, and the URL
\* carries the gas price only
C11_Witness ==
    /\ Len(log) = 1 /\ log[1].fn = "generateEIP681URL"
    /\ log[1].arg.value = Some(<<"0">>)
    /\ QueryKeys(log[1].ret.val) = <<GASPRICE>>

\* a call of generateEIP681URL that returned, for an intent whose parameters object
\* has no key named like one of the four fixed fields
IsFixedFieldCall(c) ==
    /\ c.fn = "generateEIP681URL" /\ ~c.ret.thrown
    /\ \A k \in {VALUE, GAS, GASLIMIT, GASPRICE} : ~HasKey(ParametersOf(c.arg), k)

\* the optional string is '' or '0'
EmptyOrZero(o) == o # None /\ ZeroOrEmpty(o[1])

\* the optional string denotes a number that is not strictly greater than zero
NotPositive(o) == o # None /\ ~GreaterThanZero(parseFloat(o[1]))

\* C12 (as claimed): generateEIP681URL omits each of value, gas, gasLimit and
\* gasPrice when its string is empty or "0", and omits value whenever it is not
\* strictly greater than zero.
C12_FixedFieldOmission_claimed ==
    \A i \in Calls :
        IsFixedFieldCall(log[i])
            => LET p == log[i].arg
                   keys == KeySet(log[i].ret.val)
               IN  /\ EmptyOrZero(p.value) => VALUE \notin keys
                   /\ EmptyOrZero(p.gas) => GAS \notin keys
                   /\ EmptyOrZero(p.gasLimit) => GASLIMIT \notin keys
                   /\ EmptyOrZero(p.gasPrice) => GASPRICE \notin keys
                   /\ NotPositive(p.value) => VALUE \notin keys

\* C12 (amended): generateEIP681URL omits value exactly when it is undefined, empty
\* or the string "0", and omits each of gas, gasLimit and gasPrice exactly when it
\* is undefined or empty; "0" for a gas field, and a value such as "0.0" or "-1",
\* are emitted as given.
C12_FixedFieldOmission ==
    \A i \in Calls :
        IsFixedFieldCall(log[i])
            => LET p == log[i].arg
                   keys == KeySet(log[i].ret.val)
               IN  /\ VALUE \in keys <=> (Truthy(p.value) /\ p.value[1] # <<"0">>)
                   /\ GAS \in keys <=> Truthy(p.gas)
                   /\ GASLIMIT \in keys <=> Truthy(p.gasLimit)
                   /\ GASPRICE \in keys <=> Truthy(p.gasPrice)

\* C12 witness: an intent with value "-1", gas "0" and an empty gasLimit was encoded
\* into ?value=-1&gas=0
C12_Witness ==
    /\ Len(log) = 1 /\ log[1].fn = "generateEIP681URL"
    /\ log[1].arg.value = Some(<<"-", "1">>) /\ log[1].arg.gas = Some(<<"0">>)
    /\ log[1].arg.gasLimit = Some(<<>>) /\ log[1].arg.gasPrice = None
    /\ substring(log[1].ret.val, indexOf(log[1].ret.val, "?", 1))
         = VALUE \o <<"=", "-", "1", "&">> \o GAS \o <<"=", "0">>

\* the number of query pairs of an intent that survive the filtering
SurvivingPairs(p) == Len(FixedKeys(p)) + Len(ParametersOf(p))

\* the URL up to its query: scheme, address, chain segment, function segment
HeadOf(c) ==
    ETHEREUM \o Checksummed(c.arg.address)
    \o (IF c.arg.chainId # None /\ ~c.arg.chainId[1].nan
             /\ c.arg.chainId[1].n \notin {0, MAINNET}
        THEN <<"@">> \o NumberToString(c.arg.chainId[1])
        ELSE <<>>)
    \o FunctionSegment(c)

\* C13: a string generateEIP681URL returns starts with "ethereum:"; when no query
\* pair survives it is the head alone and holds no '?'; when n > 0 pairs survive it
\* is the head, one '?', and n non-empty key=value pieces joined by single '&'.
C13_QueryDelimiters ==
    \A i \in Calls :
        (log[i].fn = "generateEIP681URL" /\ ~log[i].ret.thrown
              /\ SeparatorFreeKeys(ParametersOf(log[i].arg)))
            => LET c == log[i]
                   url == c.ret.val
                   n == SurvivingPairs(c.arg)
                   query == substring(url, Len(HeadOf(c)) + 1)
                   pieces == split(query, "&")
               IN  /\ startsWith(url, ETHEREUM)
                   /\ includes(url, "?") <=> n > 0
                   /\ n = 0 => url = HeadOf(c)
                   /\ n > 0 => /\ startsWith(url, HeadOf(c) \o <<"?">>)
                               /\ ~includes(query, "?")
                               /\ Len(pieces) = n
                               /\ \A k \in 1..n : indexOf(pieces[k], "=", 1) > 1

\* C13 witness: an intent on chain 8453 whose query fields are all filtered out
\* was encoded and came out as its head alone
C13_Witness ==
    /\ Len(log) = 1 /\ log[1].fn = "generateEIP681URL"
    /\ log[1].arg.value = Some(<<"0">>) /\ log[1].arg.gasLimit = Some(<<>>)
    /\ log[1].arg.gas = None /\ log[1].arg.gasPrice = None
    /\ log[1].arg.parameters = Some(EmptyObject)
    /\ log[1].ret.val = ETHEREUM \o <<A_CHECK, "@", "8", "4", "5", "3">>

\* C13 witness of the joined pairs: three pairs were emitted with two '&'
C13_Witness_joined ==
    /\ Len(log) = 1 /\ log[1].fn = "generateEIP681URL"
    /\ SurvivingPairs(log[1].arg) = 3
    /\ Len(split(log[1].ret.val, "&")) = 3

\* the characters that do not stand for themselves in a percent-encoded value
ReservedInValue == {"&", "=", "?", "#", "+", "/", "@", ":", " ", LONE_SURROGATE}

\* the text of a key=value piece after its first '='
RawValueOf(piece) == substring(piece, indexOf(piece, "=", 1))

\* the pieces of the query that follow the fixed fields
ParameterPieces(c) ==
    LET url == c.ret.val
        pieces == split(substring(url, indexOf(url, "?", 1)), "&")
    IN  SubSeq(pieces, Len(FixedKeys(c.arg)) + 1, Len(pieces))

\* C14: generateEIP681URL emits every parameters entry as key=<escaped value> with no
\* reserved character left in the value; decoding the pair gives the checksum-cased
\* address for an entry whose key is "address", and the original value for every
\* other entry.
C14_ParameterValues ==
    \A i \in Calls :
        (log[i].fn = "generateEIP681URL" /\ ~log[i].ret.thrown
              /\ SeparatorFreeKeys(ParametersOf(log[i].arg)))
            => LET c == log[i]
                   obj == ParametersOf(c.arg)
                   pieces == ParameterPieces(c)
               IN  Len(obj) > 0 =>
                     /\ Len(pieces) = Len(obj)
                     /\ \A j \in 1..Len(obj) :
                          /\ KeyOf(pieces[j]) = obj[j][1]
                          /\ \A k \in 1..Len(RawValueOf(pieces[j])) :
                               RawValueOf(pieces[j])[k] \notin ReservedInValue
                          /\ URLSearchParams(<<"k", "=">> \o RawValueOf(pieces[j]))
                               = <<<<(<<"k">>),
                                     IF obj[j][1] = ADDRESS
                                     THEN Checksummed(obj[j][2])
                                     ELSE obj[j][2]>>>>

\* C14 witness: parameters {address: <mixed-case address>, k: '&='} were emitted as
\* address=<checksum-cased address>&k=%26%3D
C14_Witness ==
    /\ Len(log) = 1 /\ log[1].fn = "generateEIP681URL"
    /\ log[1].arg.parameters = Some(<<<<ADDRESS, <<A_MIXED>>>>, <<(<<"k">>), <<"&", "=">>>>>>)
    /\ ParameterPieces(log[1])
         = <<ADDRESS \o <<"=", A_CHECK>>, <<"k", "=", "%", "2", "6", "%", "3", "D">>>>

\* some parameter value of the intent holds a lone surrogate
HasLoneSurrogate(p) ==
    \E j \in 1..Len(ParametersOf(p)) : includes(ParametersOf(p)[j][2], LONE_SURROGATE)

\* C15: for an address that is not 0x + 40 hex digits generateEIP681URL does not
\* raise on account of the address and returns ethereum:<that exact string> followed
\* by the chain, function and query segments it emits for a well-formed address.
C15_MalformedAddressEchoed ==
    \A i \in Calls :
        (log[i].fn = "generateEIP681URL" /\ ~IsAddressSyntax(log[i].arg.address))
            => LET c == log[i]
                   sound == [c.arg EXCEPT !.address = <<A_CHECK>>]
                   usual == generateEIP681URL(sound)
               IN  /\ c.ret.thrown <=> HasLoneSurrogate(c.arg)
                   /\ ~c.ret.thrown =>
                        /\ startsWith(c.ret.val, ETHEREUM \o c.arg.address)
                        /\ substring(c.ret.val, 9 + Len(c.arg.address))
                             = substring(usual.val, 9 + 1)

\* C15 witness: the malformed address 0x12 was encoded with chain, function name
\* and value
C15_Witness ==
    /\ Len(log) = 1 /\ log[1].fn = "generateEIP681URL"
    /\ log[1].arg.address = <<"0", "x", "1", "2">>
    /\ log[1].ret.val = ETHEREUM \o <<"0", "x", "1", "2", "@", "8", "4", "5", "3", "/">>
                         \o TRANSFER \o <<"?">> \o VALUE \o <<"=", "1", "5">>

\* the text of s before the first c, all of s when c does not occur
Before(s, c) == IF includes(s, c) THEN SubSeq(s, 1, indexOf(s, c, 1) - 1) ELSE s

\* the chain segment of a URL: what follows the first '@' of the head, up to the
\* next '@' or '/'; undefined when the head has no '@'
ChainSegmentOf(url) ==
    LET head == Before(substring(url, 9), "?")
    IN  IF ~includes(head, "@") THEN None
        ELSE Some(Before(Before(substring(head, indexOf(head, "@", 1)), "@"), "/"))

IsDecimal(s) == Len(s) > 0 /\ \A i \in 1..Len(s) : s[i] \in DigitSet

QueryEntries(url) ==
    LET pieces == split(substring(url, 9), "?")
    IN  IF Len(pieces) < 2 THEN <<>> ELSE URLSearchParams(pieces[2])

\* the value of the last entry with the key, undefined when there is none
RECURSIVE LastOf(_, _)
LastOf(entries, key) ==
    IF Len(entries) = 0 THEN None
    ELSE IF entries[Len(entries)][1] = key THEN Some(entries[Len(entries)][2])
    ELSE LastOf(SubSeq(entries, 1, Len(entries) - 1), key)

IsOtherEntry(e) == e[1] \notin {VALUE, GAS, GASLIMIT, GASPRICE}

\* the keys are pairwise different
DistinctKeys(entries) ==
    \A i, j \in 1..Len(entries) : entries[i][1] = entries[j][1] => i = j

\* C17: parseEIP681URL returns the query keys value, gas, gasLimit and gasPrice in
\* the fields of those names, and the other pairs, and only those, as parameters in
\* encounter order; parameters is undefined when there is no other pair.
C17_RecognizedKeysLifted ==
    \A i \in Calls :
        (log[i].fn \in Decoders /\ ~log[i].ret.null
              /\ DistinctKeys(QueryEntries(log[i].arg)))
            => LET d == log[i].ret
                   entries == QueryEntries(log[i].arg)
                   others == SelectSeq(entries, IsOtherEntry)
               IN  /\ Field(d, "value") = LastOf(entries, VALUE)
                   /\ Field(d, "gas") = LastOf(entries, GAS)
                   /\ Field(d, "gasLimit") = LastOf(entries, GASLIMIT)
                   /\ Field(d, "gasPrice") = LastOf(entries, GASPRICE)
                   /\ d.parameters = IF others = <<>> THEN None ELSE Some(others)

\* C17 for the copy in src/src/utils/eip681.ts, with the other pairs in the
\* enumeration order of the parameters object (integer-like keys first): the fields
\* hold the recognized keys and parameters the other pairs, and only those.
C17_RecognizedKeysLifted_srcUtils ==
    \A i \in Calls :
        (log[i].fn = "parseEIP681URL_srcUtils" /\ ~log[i].ret.null)
            => LET d == log[i].ret
                   entries == QueryEntries(log[i].arg)
                   others == SelectSeq(entries, IsOtherEntry)
               IN  /\ d.value = LastOf(entries, VALUE)
                   /\ d.gas = LastOf(entries, GAS)
                   /\ d.gasLimit = LastOf(entries, GASLIMIT)
                   /\ d.gasPrice = LastOf(entries, GASPRICE)
                   /\ d.parameters = IF others = <<>> THEN None
                                     ELSE Some(Object_fromEntries(others))

\* the text of s after the first c, empty when c does not occur
After(s, c) == IF includes(s, c) THEN substring(s, indexOf(s, c, 1)) ELSE <<>>

\* what follows the first c in s: up to the next c when cut, all of it otherwise
Following(s, c, cut) == IF cut THEN Before(After(s, c), c) ELSE After(s, c)

\* the record the decoder of src/unnamed/part_002 is to return for a URL with the
\* scheme, when each delimiter is looked for in the order '?', '@', '/': with cut,
\* a segment ends at the next occurrence of its delimiter and the remainder is
\* dropped; without, only the first occurrence splits and the segment is all that
\* follows it
Segments(url, cut) ==
    LET rest == substring(url, 9)
        head == Before(rest, "?")
        query == Following(rest, "?", cut)
        hasChain == includes(head, "@")
        addr1 == Before(head, "@")
        chainPart == Following(head, "@", cut)
        hasFunc == hasChain /\ includes(chainPart, "/")
        f1 == IF hasFunc THEN Some(Following(chainPart, "/", cut)) ELSE None
        fromAddress == ~Truthy(f1) /\ includes(addr1, "/")
        pairs == Object_fromEntries(URLSearchParams(query))
    IN  [address |-> Checksummed(IF fromAddress THEN Before(addr1, "/") ELSE addr1),
         chainId |-> IF hasChain THEN Some(parseInt(Before(chainPart, "/"))) ELSE None,
         functionName |-> IF fromAddress THEN Some(Following(addr1, "/", cut)) ELSE f1,
         parameters |-> IF pairs = <<>> THEN None
                        ELSE Some([j \in 1..Len(pairs) |->
                                 <<pairs[j][1],
                                   IF pairs[j][1] = ADDRESS
                                   THEN Checksummed(pairs[j][2])
                                   ELSE pairs[j][2]>>])]

\* the fields of a returned record that the segments of the URL determine
SegmentFields(d) ==
    [address |-> d.address, chainId |-> d.chainId, functionName |-> d.functionName,
     parameters |-> d.parameters]

\* C18 (as claimed): parseEIP681URL splits at the first occurrence of each of '?',
\* '@' and '/' only: the query is everything after the first '?', the function name
\* everything after the first '/'; a second delimiter does not split again.
C18_FirstDelimiter_claimed ==
    \A i \in Calls :
        (log[i].fn = "parseEIP681URL" /\ ~log[i].ret.null)
            => SegmentFields(log[i].ret) = Segments(log[i].arg, FALSE)

\* C18 (amended): parseEIP681URL splits at every occurrence of a delimiter and keeps
\* the first two pieces: the query is what stands between the first and the second
\* '?', the chain segment between the first and the second '@', the function name
\* between the first and the second '/'; what follows a second delimiter is dropped.
C18_FirstDelimiter ==
    \A i \in Calls :
        (log[i].fn = "parseEIP681URL" /\ ~log[i].ret.null)
            => SegmentFields(log[i].ret) = Segments(log[i].arg, TRUE)

\* C18 witness: a URL with the function segment /f/g was parsed and came back with
\* the function name f
C18_Witness ==
    /\ Len(log) = 1 /\ log[1].fn = "parseEIP681URL"
    /\ log[1].arg = ETHEREUM \o <<A_MIXED, "/", "f", "/", "g">>
    /\ log[1].ret.functionName = Some(<<"f">>)

\* C18 witness of the query: a URL with the query ?k=x?y was parsed and came back
\* with k = x
C18_Witness_query ==
    /\ Len(log) = 1 /\ log[1].fn = "parseEIP681URL"
    /\ log[1].arg = ETHEREUM \o <<A_MIXED, "?", "k", "=", "x", "?", "y">>
    /\ log[1].ret.parameters = Some(<<<<(<<"k">>), <<"x">>>>>>)

\* the chain segment generateEIP681URL writes for an optional chain id
ExpectedChainSegment(chainId) ==
    IF chainId # None /\ ~chainId[1].nan /\ chainId[1].n \notin {0, MAINNET}
    THEN <<"@">> \o NumberToString(chainId[1])
    ELSE <<>>

\* the amount is non-empty, not "0" and denotes a number greater than zero
IsPositiveAmount(amount) ==
    /\ amount # <<>> /\ amount # <<"0">>
    /\ amount[1] # "-"
    /\ \E k \in 1..Len(amount) : amount[k] \in DigitSet \ {"0"}

\* ethereum:<token>[@chainId]/transfer?address=<recipient>[&uint256=<amount>]
TokenTransferForm(token, recipient, amount, chainId) ==
    ETHEREUM \o Checksummed(token) \o ExpectedChainSegment(chainId)
    \o <<"/">> \o TRANSFER \o <<"?">> \o ADDRESS \o <<"=">> \o Checksummed(recipient)
    \o (IF IsPositiveAmount(amount) THEN <<"&">> \o UINT256 \o <<"=">> \o amount ELSE <<>>)

\* C19: generateTokenTransferURL, and formDataToEIP681URL with a non-empty
\* tokenAddress, return ethereum:<checksummed token>[@chainId]/transfer?address=
\* <checksummed recipient>[&uint256=<amount>], the amount pair exactly for a
\* positive amount; formDataToEIP681URL without tokenAddress returns a URL
\* addressed to the recipient without function name.
C19_TokenTransferForm ==
    \A i \in Calls :
        LET c == log[i]
        IN  /\ c.fn = "generateTokenTransferURL"
                 => c.ret = Return(TokenTransferForm(c.arg.tokenAddress, c.arg.toAddress,
                                                     c.arg.amount, c.arg.chainId))
            /\ (c.fn = "formDataToEIP681URL" /\ Truthy(c.arg.tokenAddress))
                 => c.ret = Return(TokenTransferForm(c.arg.tokenAddress[1], c.arg.toAddress,
                                                     OrEmpty(c.arg.value), c.arg.chainId))
            /\ (c.fn = "formDataToEIP681URL" /\ ~Truthy(c.arg.tokenAddress))
                 => /\ startsWith(c.ret.val, ETHEREUM \o Checksummed(c.arg.toAddress))
                    /\ ~includes(c.ret.val, "/")

\* C19 witness: a transfer of 100 token units on chain 8453 was encoded
C19_Witness ==
    /\ Len(log) = 1 /\ log[1].fn = "generateTokenTransferURL"
    /\ log[1].arg = [tokenAddress |-> <<T_MIXED>>, toAddress |-> <<A_MIXED>>,
                     amount |-> <<"1", "0", "0">>, chainId |-> Some(Num(BASE))]
    /\ log[1].ret.val = ETHEREUM \o <<T_CHECK, "@", "8", "4", "5", "3", "/">> \o TRANSFER
                         \o <<"?">> \o ADDRESS \o <<"=", A_CHECK, "&">> \o UINT256
                         \o <<"=", "1", "0", "0">>

\* C19 witness of the form data: form data with a token address and the amount 15
\* were encoded into a transfer URL
C19_Witness_formData ==
    /\ Len(log) = 1 /\ log[1].fn = "formDataToEIP681URL"
    /\ log[1].arg.tokenAddress = Some(<<T_MIXED>>)
    /\ log[1].arg.value = Some(<<"1", "5">>)
    /\ includes(log[1].ret.val, "/")

\* the pieces of the query of a URL, none when it has no '?'
QueryPieces(url) ==
    IF includes(url, "?") THEN split(substring(url, indexOf(url, "?", 1)), "&") ELSE <<>>

\* the tail of the query of a native transfer: gas=<gasLimit>, then gasPrice=<gasPrice>
ExpectedGasPieces(gasLimit, gasPrice) ==
    (IF gasLimit # None /\ gasLimit[1] # <<>>
     THEN <<GAS \o <<"=">> \o gasLimit[1]>> ELSE <<>>)
    \o (IF gasPrice # None /\ gasPrice[1] # <<>>
        THEN <<GASPRICE \o <<"=">> \o gasPrice[1]>> ELSE <<>>)

\* C20: the query of a URL generateETHTransferURL (or the native path of
\* formDataToEIP681URL) returns consists of value, present if and only if the amount
\* is non-empty, not "0" and greater than zero, then gas=<gasLimit> if and only if
\* gasLimit is non-empty, then gasPrice=<gasPrice> if and only if gasPrice is
\* non-empty, in this order.
C20_NativeQueryOrder ==
    \A i \in Calls :
        IsNativeCall(log[i])
            => LET c == log[i]
                   pieces == QueryPieces(c.ret.val)
                   gasPieces == ExpectedGasPieces(c.arg.gasLimit, c.arg.gasPrice)
               IN  IF IsPositiveAmount(NativeAmount(c))
                   THEN /\ Len(pieces) = 1 + Len(gasPieces)
                        /\ KeyOf(pieces[1]) = VALUE
                        /\ Tail(pieces) = gasPieces
                   ELSE pieces = gasPieces

\* C20 witness: 1.5 ether with gas limit 3 and gas price 4 on chain 1 were encoded
\* into ?value=1.5e18&gas=3&gasPrice=4
C20_Witness ==
    /\ Len(log) = 1 /\ log[1].fn = "generateETHTransferURL"
    /\ log[1].arg.gasLimit = Some(<<"3">>) /\ log[1].arg.gasPrice = Some(<<"4">>)
    /\ log[1].ret.val = ETHEREUM \o <<A_CHECK, "@", "1", "?">> \o VALUE
                         \o <<"=", "1", ".", "5", "e", "1", "8", "&">> \o GAS
                         \o <<"=", "3", "&">> \o GASPRICE \o <<"=", "4">>


(***************************************************************************)
(* C21.                                                                    *)
(***************************************************************************)
\* a decimal literal without a sign: digits, then perhaps a point and digits
IsDecimalAmount(a) ==
    LET int == DigitsPrefix(a, 1)
        rest == SubSeq(a, Len(int) + 1, Len(a))
    IN  /\ Len(int) > 0
        /\ \/ rest = <<>>
           \/ /\ Len(rest) > 1 /\ rest[1] = "."
              /\ DigitsPrefix(rest, 2) = Tail(rest)

\* a * 10^d truncated toward zero, read off the digits of a: the integer digits
\* followed by the first d digits after the point (zeros where there are none)
TruncatedBaseUnits(a, d) ==
    LET int == DigitsPrefix(a, 1)
        frac == SubSeq(a, Len(int) + 2, Len(a))
        kept == SubSeq(frac \o Zeros(d), 1, d)
    IN  DigitsValue(int \o kept)

\* the integer a returned string denotes: digits, or digits e digits
BaseUnitsOf(s) ==
    LET c == DigitsPrefix(s, 1)
        rest == SubSeq(s, Len(c) + 1, Len(s))
    IN  IF rest = <<>> THEN DigitsValue(c)
        ELSE DigitsValue(c) * Pow10(DigitsValue(Tail(rest)))

IsBaseUnits(s) ==
    LET c == DigitsPrefix(s, 1)
        rest == SubSeq(s, Len(c) + 1, Len(s))
    IN  /\ Len(c) > 0
        /\ \/ rest = <<>>
           \/ Len(rest) > 1 /\ rest[1] = "e" /\ DigitsPrefix(rest, 2) = Tail(rest)

ConvertsByTruncation(c) ==
    IsDecimalAmount(c.arg.amount) =>
        /\ ~c.ret.thrown
        /\ IsBaseUnits(c.ret.val)
        /\ BaseUnitsOf(c.ret.val) = TruncatedBaseUnits(c.arg.amount, c.arg.decimals)

\* C21: for a decimal token amount a and a token of d decimals, formatTokenAmount
\* and the parseUnits conversion of the form both yield the integer a * 10^d
\* truncated toward zero, also when a has more than d digits after the point
C21_TruncatedBaseUnits ==
    \A i \in 1 .. Len(log) :
        log[i].fn \in {"formatTokenAmount", "parseUnits"} => ConvertsByTruncation(log[i])

\* C21 of formatTokenAmount alone: Math.floor truncates an amount that is not
\* negative
C21_TruncatedBaseUnits_formatTokenAmount ==
    \A i \in 1 .. Len(log) :
        log[i].fn = "formatTokenAmount" => ConvertsByTruncation(log[i])

\* C21 of parseUnits where nothing is cut: the amount has at most d digits
\* after the point
C21_ExactBaseUnits_parseUnits ==
    \A i \in 1 .. Len(log) :
        (/\ log[i].fn = "parseUnits"
         /\ IsDecimalAmount(log[i].arg.amount)
         /\ Len(log[i].arg.amount) - Len(DigitsPrefix(log[i].arg.amount, 1)) - 1
                <= log[i].arg.decimals)
        => ConvertsByTruncation(log[i])


(***************************************************************************)
(* C22.                                                                    *)
(***************************************************************************)
\* the searches that have returned, that asked for USDC on a chain whose USDC
\* the module pre-populates
UsdcSearches ==
    {i \in 1 .. Len(searchCalls) :
        /\ searchCalls[i].pc = "done"
        /\ toLowerCaseString(searchCalls[i].query)
               \in {<<"u", "s", "d", "c">>, <<"u", "s", "d", " ", "c", "o", "i", "n">>}
        /\ USDC_CACHE_initial[searchCalls[i].chainId] # <<>>}

\* C22 as claimed: after any sequence of searchTokensOnDexScreener calls, a
\* query equal to "usdc" or "usd coin" in any casing, on a chain with a
\* pre-populated USDC, returns exactly one token, the pre-populated entry, and
\* issues no fetch
C22_CachedUsdcOnly_claimed ==
    \A i \in UsdcSearches :
        /\ searchCalls[i].ret = USDC_CACHE_initial[searchCalls[i].chainId]
        /\ ~searchCalls[i].fetched

\* C22 as the code has it: such a query issues no fetch and returns one token
\* or more, of which the first is the pre-populated entry and all are of the
\* chain asked for and have the symbol USDC in some casing
C22_CachedUsdcOnly ==
    \A i \in UsdcSearches :
        LET ret == searchCalls[i].ret
        IN  /\ ~searchCalls[i].fetched
            /\ Len(ret) >= 1
            /\ ret[1] = USDC_CACHE_initial[searchCalls[i].chainId][1]
            /\ \A k \in 1 .. Len(ret) :
                   /\ ret[k].chainId = searchCalls[i].chainId
                   /\ toUpperCaseString(ret[k].symbol) = <<"U", "S", "D", "C">>

\* a USDC query on Ethereum has returned two tokens: an earlier search cached
\* a second USDC
C22_Witness ==
    \E i \in UsdcSearches :
        /\ Len(searchCalls[i].ret) = 2
        /\ \E j \in 1 .. i - 1 : searchCalls[j].fetched /\ searchCalls[j].pc = "done"


(***************************************************************************)
(* C23, C24.                                                               *)
(***************************************************************************)
FinishedDecimalsCalls == {i \in 1 .. Len(decimalsCalls) : decimalsCalls[i].pc = "done"}

\* the RPC results that are a number of decimals within 0..77, with the number
ValidRpcResults ==
    {<<<<"0", "x", "6">>, 6>>, <<<<"0", "x", "4", "D">>, 77>>}

\* what the claim has a call return whose fetch was answered by response
ClaimedDecimals(response) ==
    IF ~response.rejected /\ response.result # None
       /\ \E v \in ValidRpcResults : v[1] = response.result[1]
    THEN (CHOOSE v \in ValidRpcResults : v[1] = response.result[1])[2]
    ELSE 18

\* C23: every number getTokenDecimals returns or stores in decimalsCache is an
\* integer from 0 to 77; it is 18 when the chain is unknown or has no RPC URL
\* (and then nothing is fetched) and when the fetch fails or its result is
\* missing, '0x', not a number or above 77
C23_DecimalsInRange ==
    /\ \A k \in DOMAIN decimalsCache : decimalsCache[k] \in 0 .. 77
    /\ \A i \in 1 .. Len(searchCalls) : \A k \in 1 .. Len(searchCalls[i].tokens) :
           searchCalls[i].tokens[k].decimals \in 0 .. 77
    /\ \A i \in FinishedDecimalsCalls :
           LET call == decimalsCalls[i]
           IN  /\ call.ret \in 0 .. 77
               /\ (~call.hit /\ (call.chain = None \/ call.chain[1].rpc = <<>>))
                      => call.ret = 18 /\ ~call.fetched
               /\ call.response # None => call.ret = ClaimedDecimals(call.response[1])

\* a call whose fetch gave 79 ('0x4F') has returned 18, and a call for an
\* unknown chain has returned 18 without a fetch
C23_Witness ==
    /\ \E i \in FinishedDecimalsCalls :
           /\ decimalsCalls[i].response = Some(RpcResponse(FALSE, Some(<<"0", "x", "4", "F">>)))
           /\ decimalsCalls[i].ret = 18
    /\ \E i \in FinishedDecimalsCalls :
           /\ decimalsCalls[i].chain = None /\ ~decimalsCalls[i].hit
           /\ ~decimalsCalls[i].fetched

KeyOfCall(call) == <<call.chainId, toLowerCaseString(call.address)>>

\* C24: for one key (chain id, lower-cased token address) getTokenDecimals
\* issues at most one fetch over any sequence of calls, overlapping ones
\* included, and all calls for the key return the same number
C24_SingleFetchPerKey ==
    \A i, j \in 1 .. Len(decimalsCalls) :
        (i # j /\ KeyOfCall(decimalsCalls[i]) = KeyOfCall(decimalsCalls[j]))
        => /\ ~(decimalsCalls[i].fetched /\ decimalsCalls[j].fetched)
           /\ (i \in FinishedDecimalsCalls /\ j \in FinishedDecimalsCalls)
                  => decimalsCalls[i].ret = decimalsCalls[j].ret


(***************************************************************************)
(* The form: submissions.                                                  *)
(***************************************************************************)
Shown == <<generatedURL, userFriendlyTitle, resolvedEnsResult>>

\* the recipient of a submission is empty or whitespace, or the result of
\* processAddressInput for it is invalid (a syntax that is neither an address
\* nor a name, or a name that does not resolve)
RecipientRefused(submit) ==
    \/ Trim(submit.data.toAddress) = <<>>
    \/ submit.ensResult # None /\ ~submit.ensResult[1].isValid

\* a call of onSubmit that has ended in this step as a rejection
RejectedInStep(i) ==
    /\ i \in 1 .. Len(submits')
    /\ submits'[i].pc = "rejected"
    /\ i \in 1 .. Len(submits) => submits[i].pc # "rejected"

\* C25: a submission with a chain selected whose recipient is empty or
\* whitespace, syntactically invalid, or a name that fails to resolve ends as
\* a rejection, never as a generated URL; and the step in which onSubmit
\* rejects leaves generatedURL, userFriendlyTitle and resolvedEnsResult as
\* they were, so that nothing is shown that was not shown before.
C25_RejectionLeavesFormUnchanged ==
    /\ [](\A i \in 1 .. Len(submits) :
            (submits[i].selectedChain # None /\ submits[i].pc # "resolving"
                 /\ RecipientRefused(submits[i]))
            => submits[i].pc = "rejected")
    /\ [][\A i \in 1 .. Len(submits') : RejectedInStep(i) => Shown' = Shown]_vars

\* a name that did not resolve is rejected while the link of an earlier
\* submission is shown
C25_Witness ==
    \E i \in 1 .. Len(submits) :
        /\ submits[i].pc = "rejected"
        /\ submits[i].ensResult # None
        /\ submits[i].ensResult[1].isENS
        /\ generatedURL # <<>>
        /\ resolvedEnsResult = None


\* C28: the mounted form has a chain selected, and a submission of a valid
\* address generates a URL, whether or not the chain list was loaded before
\* the form was mounted.
C28_DefaultChainSelected ==
    /\ mounted => selectedChain # None
    /\ \A i \in 1 .. Len(submits) :
           (isAddress(Trim(submits[i].data.toAddress)) /\ submits[i].pc # "resolving")
           => submits[i].pc = "generated"


(***************************************************************************)
(* The token selector: the debounced search.                               *)
(***************************************************************************)
\* C26: a pending timeout of the debounced search holds the query and the
\* chain of the selector as they are now, so that a change of the query
\* replaces the search of the query before it; every search the selector has
\* started was started DEBOUNCE_MS or more after the last change, with the
\* query and the chain id of that moment and a query of two characters or
\* more; and a search started later belongs to a change made after the
\* search before it was started, so that a burst of changes starts at most
\* one search.
C26_DebouncedSearch ==
    /\ timeout # None =>
           /\ timeout[1].searchQuery = queryState
           /\ Some(timeout[1].currentChainId) = ChainIdOf(selectedChain)
    /\ \A i \in 1 .. Len(selectorSearches) :
           LET search == selectorSearches[i]
           IN  /\ search.at >= search.armedAt + DEBOUNCE_MS
               /\ search.query = search.queryThen
               /\ Some(search.chainId) = search.chainThen
               /\ Len(search.query) >= 2
               /\ \A j \in 1 .. (i - 1) : selectorSearches[j].at <= search.armedAt

\* the one search of a burst: the last change cleared the timeout of the
\* change before it, and the search started when the wait was over
C26_Witness ==
    /\ Len(selectorSearches) = 1
    /\ selectorSearches[1].cleared
    /\ selectorSearches[1].query = USD
    /\ selectorSearches[1].armedAt = 250
    /\ selectorSearches[1].at = 250 + DEBOUNCE_MS
    /\ now = 1000


\* C29: a selected token is a token of the selected chain, and the tokens the
\* selector offers are tokens of the selected chain, also when a search that
\* was started for the chain selected before completes after the change.
C29_TokenOfSelectedChain ==
    /\ selectedToken # None =>
           Some(selectedToken[1].chainId) = ChainIdOf(selectedChain)
    /\ \A k \in 1 .. Len(tokensState) :
           Some(tokensState[k].chainId) = ChainIdOf(selectedChain)


(***************************************************************************)
(* The address input: the result it shows.                                 *)
(***************************************************************************)
\* no timer is set and no call of resolveAddress awaits its result
NothingOutstanding ==
    /\ debounceTimer = None
    /\ \A i \in 1 .. Len(resolutions) : resolutions[i].pc = "done"

\* the results resolveAddress can give for a value on a chain
ResultsFor(value, chainId) ==
    IF value = <<>> THEN {None}
    ELSE IF resolveAddressBegin(value, chainId).pc = "done"
    THEN {resolveAddressBegin(value, chainId).result}
    ELSE ResolutionOutcomes(value)

\* C30: when no resolution is outstanding, ensResult is a result for the value
\* and the chain the input has now (null for the empty value), and
\* isResolving is false.
C30_ResultOfCurrentInput ==
    NothingOutstanding =>
        /\ addressResult \in ResultsFor(addressValue, addressChainId)
        /\ ~isResolving


(***************************************************************************)
(* The resolver: its rate limiter.                                         *)
(***************************************************************************)
\* C27: for every rate key, any MAX_REQUESTS_PER_MINUTE + 1 calls that were
\* let through and began their RPC lie RATE_WINDOW_MS or more apart, so that a
\* window shorter than that holds at most MAX_REQUESTS_PER_MINUTE of them,
\* and requestTimestamps never holds more than that many entries for a key;
\* a call that is denied returns the null result, and its step begins no RPC
\* and leaves the resolver cache as it was.
C27_RateLimit ==
    /\ [](\A key \in RateKeys :
            /\ Len(requestTimestamps[key]) <= MAX_REQUESTS_PER_MINUTE
            /\ \A i \in 1 .. Len(rpcLog[key]) - MAX_REQUESTS_PER_MINUTE :
                   rpcLog[key][i + MAX_REQUESTS_PER_MINUTE] - rpcLog[key][i]
                       >= RATE_WINDOW_MS)
    /\ [](lastCall # None /\ lastCall[1].pc = "denied"
            => lastCall[1].ret = Some(NullResult(lastCall[1].fn)))
    /\ [][(lastCall' # None /\ lastCall'[1].pc = "denied")
            => /\ resolverCache' = resolverCache
               /\ rpcLog' = rpcLog
               /\ pendingRpcs' = pendingRpcs]_vars

\* a call is denied 30 seconds after the first of the ten calls of its key
\* that were let through, while their RPCs are awaited
C27_Witness ==
    /\ lastCall # None
    /\ lastCall[1].pc = "denied"
    /\ dateNow = 30000
    /\ LET key == RateKey(lastCall[1].fn, lastCall[1].arg)
       IN  /\ Len(rpcLog[key]) = MAX_REQUESTS_PER_MINUTE
           /\ rpcLog[key][1] = 0
           /\ rpcLog[key][MAX_REQUESTS_PER_MINUTE] = 30000
           /\ pendingRpcs[key] > 0

====
